---- MODULE Spec2Model ----
(***************************************************************************)
(* Model of the MuleEngine-Pro detection and scoring pipeline              *)
(* (backend/app): GraphService.detect_cycles, PatternService.detect_*,     *)
(* calculate_final_score and AnalysisEngine.run_full_analysis.             *)
(*                                                                         *)
(* Units.  Timestamps are whole hours.  Base                                *)
(* scores are kept in points, multipliers in tenths (13 = 1.3), and every  *)
(* score that leaves calculate_final_score is in hundredths of a point     *)
(* (8500 = 85.00), which is the precision round(x, 2) leaves.              *)
(***************************************************************************)
EXTENDS Integers, Sequences, FiniteSets, TLC

VARIABLES
    batch,                \* self.df: the rows handed to AnalysisEngine
    pc,                   \* position inside run_full_analysis
    cycles,               \* result of detect_cycles
    smurfing,             \* result of detect_smurfing
    shell_chains,         \* result of detect_shell_networks
    account_data,         \* dict of reported accounts, in insertion order
    fraud_rings,          \* list of FraudRing
    ring_members_mapped,  \* dict account -> ring number
    ring_counter,         \* ring_counter
    loop_idx,             \* index of the cycle / chain the ring loops are at
    suspicious_list,      \* the sorted output list
    prev_result,          \* envelope of the previous run on this engine input
    runs,                 \* number of completed runs
    score_in,             \* arguments of a direct calculate_final_score call
    score_out,            \* its return value
    elapsed,              \* seconds since self.start_time = time.time()
    http_response,        \* the answer to the last request
    class_out,            \* argument and return value of a direct get_account_type call
    dfs,                  \* detect_cycles: start list, loop index, stack, visited_global
    bfs,                  \* detect_shell_networks: start sample, loop index, queue, visited_in_search
    upload,               \* the rows of the uploaded CSV file, as read_csv reads them
    latest_result         \* main.latest_result

vars == <<batch, pc, cycles, smurfing, shell_chains, account_data, fraud_rings,
          ring_members_mapped, ring_counter, loop_idx, suspicious_list,
          prev_result, runs, score_in, score_out, elapsed, http_response,
          class_out, dfs, bfs, upload, latest_result>>

(***************************************************************************)
(* Bounds of the model                                                     *)
(***************************************************************************)
MaxTx == 6
MaxBases == 3
MaxMultipliers == 1
MaxRuns == 2

(***************************************************************************)
(* RiskWeights (core/scoring.py)                                           *)
(***************************************************************************)
CYCLE_INVOLVEMENT == 85
SMURFING_FAST_REDI == 75
SMURFING_DELAYED_REDI == 55
SMURFING_SLOW_REDI == 40
SHELL_ACCOUNT == 60
FAST_PASS_THROUGH == 13
DELAYED_PASS_THROUGH == 11
FAN_THRESHOLD == 10
WINDOW_HOURS == 72
MAX_SHELL_TX == 3
MIN_SCORE == 0
MAX_SCORE == 10000
MERCHANT_MAX_SCORE == 3500
PAYROLL_MAX_SCORE == 3000

(***************************************************************************)
(* Generic helpers                                                         *)
(***************************************************************************)
Range(s) == {s[i] : i \in 1..Len(s)}

Min(a, b) == IF a <= b THEN a ELSE b

Max(a, b) == IF a >= b THEN a ELSE b

RECURSIVE SumSeq(_)
SumSeq(s) == IF s = <<>> THEN 0 ELSE Head(s) + SumSeq(Tail(s))

RECURSIVE MaxSeq(_)
MaxSeq(s) == IF Len(s) = 1 THEN s[1] ELSE Max(Head(s), MaxSeq(Tail(s)))

RECURSIVE ProdSeq(_)
ProdSeq(s) == IF s = <<>> THEN 1 ELSE Head(s) * ProdSeq(Tail(s))

RECURSIVE Pow10(_)
Pow10(k) == IF k = 0 THEN 1 ELSE 10 * Pow10(k - 1)

\* Nearest integer to num/den (den > 0, num >= 0), ties to the even integer:
\* what Python's round() does on an exactly representable value.
RoundDiv(num, den) ==
    LET q == num \div den
        r == num % den
    IN  IF 2 * r < den THEN q
        ELSE IF 2 * r > den THEN q + 1
        ELSE IF q % 2 = 0 THEN q ELSE q + 1

RECURSIVE Perms(_)
Perms(S) ==
    IF S = {} THEN {<<>>}
    ELSE UNION {{<<x>> \o p : p \in Perms(S \ {x})} : x \in S}

(***************************************************************************)
(* calculate_final_score (core/scoring.py)                                 *)
(*   base_scores in points, multipliers in tenths; result in hundredths.   *)
(***************************************************************************)
\* round(final_score, 2) of the value num/den points, in hundredths
Round2(num, den) == RoundDiv(100 * num, den)

\* The reading max + 0.2 * (sum of the others) * multiplier, in which the
\* multiplier reaches the supporting part only
combined_score_supporting_only(base_scores, multipliers) ==
    LET primary_score == MaxSeq(base_scores)
        rest == SumSeq(base_scores) - primary_score
    IN  <<5 * primary_score * Pow10(Len(multipliers)) + rest * ProdSeq(multipliers),
          5 * Pow10(Len(multipliers))>>

\* STEP 1-3: (primary + 0.2 * (sum - primary)) * product of multipliers,
\* as the fraction <<numerator, denominator>> of points
combined_score(base_scores, multipliers) ==
    LET primary_score == MaxSeq(base_scores)
        rest == SumSeq(base_scores) - primary_score
    IN  <<(5 * primary_score + rest) * ProdSeq(multipliers),
          5 * Pow10(Len(multipliers))>>

\* STEP 4: class caps, on the fraction num/den of points, result as a
\* fraction again (min(final_score, cap))
class_cap(f, account_type) ==
    LET cap == IF account_type = "merchant" THEN MERCHANT_MAX_SCORE
               ELSE PAYROLL_MAX_SCORE
    IN  IF account_type \in {"merchant", "payroll"}
           /\ 100 * f[1] > cap * f[2]
        THEN <<cap, 100>>
        ELSE f

calculate_final_score_noclamp(base_scores, multipliers, account_type) ==
    IF base_scores = <<>> THEN 0
    ELSE LET f == class_cap(combined_score(base_scores, multipliers),
                            account_type)
         IN  Round2(f[1], f[2])

calculate_final_score_nocap(base_scores, multipliers, account_type) ==
    IF base_scores = <<>> THEN 0
    ELSE LET f == combined_score(base_scores, multipliers)
         IN  Min(MAX_SCORE, Max(MIN_SCORE, Round2(f[1], f[2])))

calculate_final_score(base_scores, multipliers, account_type) ==
    IF base_scores = <<>> THEN 0
    ELSE LET f == class_cap(combined_score(base_scores, multipliers),
                            account_type)
         IN  Min(MAX_SCORE, Max(MIN_SCORE, Round2(f[1], f[2])))

(***************************************************************************)
(* Transaction table and the directed graph built from it.                 *)
(* A row is [sender_id, receiver_id, timestamp, amount].  nx.DiGraph keeps *)
(* nodes and adjacency in insertion order and collapses parallel edges.    *)
(***************************************************************************)
Row(s, r, t, a) == [sender_id |-> s, receiver_id |-> r, timestamp |-> t, amount |-> a]

\* the distinct elements of s[lo..hi] in order of first occurrence (the order
\* in which a dict keeps its keys), by halves
RECURSIVE Dedup(_, _, _)
Dedup(s, lo, hi) ==
    IF lo > hi THEN <<>>
    ELSE IF lo = hi THEN <<s[lo]>>
    ELSE LET mid == (lo + hi) \div 2
             left == Dedup(s, lo, mid)
             seen == Range(left)
         IN  left \o SelectSeq(Dedup(s, mid + 1, hi), LAMBDA x : x \notin seen)

\* endpoints in the order add_edge meets them: sender, receiver, row by row
Endpoints(df) ==
    [i \in 1..(2 * Len(df)) |->
        IF i % 2 = 1 THEN df[(i + 1) \div 2].sender_id ELSE df[i \div 2].receiver_id]

all_accounts(df) ==
    {df[i].sender_id : i \in 1..Len(df)} \cup {df[i].receiver_id : i \in 1..Len(df)}

in_rows(df, v) == {i \in 1..Len(df) : df[i].receiver_id = v}

out_rows(df, v) == {i \in 1..Len(df) : df[i].sender_id = v}

unique_in(df, v) == {df[i].sender_id : i \in in_rows(df, v)}

unique_out(df, v) == {df[i].receiver_id : i \in out_rows(df, v)}

\* G.successors(u): distinct receivers of u in row order
successors(df, u) ==
    LET rows == SelectSeq(df, LAMBDA r : r.sender_id = u)
        recv == [i \in 1..Len(rows) |-> rows[i].receiver_id]
    IN  Dedup(recv, 1, Len(recv))

build_graph(df) ==
    LET nodes == Dedup(Endpoints(df), 1, 2 * Len(df))
    IN  [nodes |-> nodes,
         succ  |-> [u \in Range(nodes) |-> successors(df, u)]]

in_degree(df, v) == Cardinality(unique_in(df, v))

out_degree(df, v) == Cardinality(unique_out(df, v))

(***************************************************************************)
(* GraphService.detect_cycles                                              *)
(***************************************************************************)
min_len == 3
max_len == 5
MAX_CYCLES == 1000
HUB_DIVISOR == 200

degree_threshold_div2(G) == Max(2, Len(G.nodes) \div 2)

degree_threshold(G) == Max(2, Len(G.nodes) \div HUB_DIVISOR)

high_degree_nodes(df, G) ==
    SelectSeq(G.nodes, LAMBDA n : in_degree(df, n) + out_degree(df, n) >= degree_threshold(G))

RECURSIVE CycleNeighbors_nomin(_, _, _, _, _)
CycleNeighbors_nomin(start_node, path, nbrs, i, s) ==
    IF i > Len(nbrs) THEN s
    ELSE LET neighbor == nbrs[i]
             closes == neighbor = start_node /\ Len(path) <= max_len
             cycle_key == Range(path)
             s1 == IF closes /\ cycle_key \notin s.visited_global
                   THEN [s EXCEPT !.cycles = Append(@, path),
                                  !.visited_global = @ \cup {cycle_key}]
                   ELSE s
             s2 == IF neighbor \notin s1.visited /\ Len(path) < max_len
                   THEN [s1 EXCEPT !.visited = @ \cup {neighbor},
                                   !.stack = Append(@, [current |-> neighbor,
                                                        path |-> Append(path, neighbor),
                                                        visited |-> s1.visited \cup {neighbor}])]
                   ELSE s1
         IN  CycleNeighbors_nomin(start_node, path, nbrs, i + 1, s2)

\* The for loop over G.successors(current) of one popped frame.
\* s = [stack, visited, cycles, visited_global]; `visited` is the frame's own
\* set, which the loop mutates, so a later sibling sees the earlier siblings.
RECURSIVE CycleNeighbors(_, _, _, _, _)
CycleNeighbors(start_node, path, nbrs, i, s) ==
    IF i > Len(nbrs) THEN s
    ELSE LET neighbor == nbrs[i]
             closes == neighbor = start_node /\ min_len <= Len(path) /\ Len(path) <= max_len
             cycle_key == Range(path)    \* tuple(sorted(cycle)) of distinct vertices
             s1 == IF closes /\ cycle_key \notin s.visited_global
                   THEN [s EXCEPT !.cycles = Append(@, path),
                                  !.visited_global = @ \cup {cycle_key}]
                   ELSE s
             s2 == IF neighbor \notin s1.visited /\ Len(path) < max_len
                   THEN [s1 EXCEPT !.visited = @ \cup {neighbor},
                                   !.stack = Append(@, [current |-> neighbor,
                                                        path |-> Append(path, neighbor),
                                                        visited |-> s1.visited \cup {neighbor}])]
                   ELSE s1
         IN  CycleNeighbors(start_node, path, nbrs, i + 1, s2)

\* while stack and len(cycles) < MAX_CYCLES; st = [cycles, visited_global]
RECURSIVE CycleDfs(_, _, _, _)
CycleDfs(G, start_node, stack, st) ==
    IF stack = <<>> \/ Len(st.cycles) >= MAX_CYCLES THEN st
    ELSE LET top == stack[Len(stack)]
             rest == SubSeq(stack, 1, Len(stack) - 1)
         IN  IF Len(top.path) > max_len THEN CycleDfs(G, start_node, rest, st)
             ELSE LET r == CycleNeighbors(start_node, top.path, G.succ[top.current], 1,
                                          [stack |-> rest, visited |-> top.visited,
                                           cycles |-> st.cycles,
                                           visited_global |-> st.visited_global])
                  IN  CycleDfs(G, start_node, r.stack,
                               [cycles |-> r.cycles, visited_global |-> r.visited_global])

\* for start_node in high_degree_nodes
RECURSIVE CycleStarts(_, _, _, _)
CycleStarts(G, starts, i, st) ==
    IF i > Len(starts) \/ Len(st.cycles) >= MAX_CYCLES THEN st
    ELSE CycleStarts(G, starts, i + 1,
                     CycleDfs(G, starts[i],
                              <<[current |-> starts[i], path |-> <<starts[i]>>,
                                 visited |-> {starts[i]}]>>, st))

detect_cycles(df) ==
    LET G == build_graph(df)
    IN  CycleStarts(G, high_degree_nodes(df, G), 1,
                    [cycles |-> <<>>, visited_global |-> {}]).cycles

(***************************************************************************)
(* PatternService.detect_shell_networks                                    *)
(***************************************************************************)
max_depth == 5
max_chains == 500
MAX_STARTS == 100
BRANCH_LIMIT == 5

account_activity(df, acc) ==
    Cardinality(out_rows(df, acc)) + Cardinality(in_rows(df, acc))

shell_candidates(df) ==
    {acc \in all_accounts(df) :
        account_activity(df, acc) >= 2 /\ account_activity(df, acc) <= MAX_SHELL_TX}

interior_with_ends(path) == {path[i] : i \in 1..Len(path)}

interior(path) == {path[i] : i \in 2..(Len(path) - 1)}

\* for next_node in list(G.successors(current))[:5]; s = [queue, visited]
RECURSIVE ShellExtend(_, _, _, _)
ShellExtend(path, nbrs, i, s) ==
    IF i > Min(Len(nbrs), BRANCH_LIMIT) THEN s
    ELSE ShellExtend(path, nbrs, i + 1,
                     IF nbrs[i] \notin s.visited
                     THEN [queue |-> Append(s.queue, [current |-> nbrs[i],
                                                      path |-> Append(path, nbrs[i])]),
                           visited |-> s.visited \cup {nbrs[i]}]
                     ELSE s)

\* while queue and len(chains) < max_chains
RECURSIVE ShellBfs(_, _, _, _, _)
ShellBfs(G, cand, queue, visited, chains) ==
    IF queue = <<>> \/ Len(chains) >= max_chains THEN chains
    ELSE LET path == Head(queue).path
             rest == Tail(queue)
         IN  IF Len(path) >= 4 /\ interior(path) \cap cand # {}
             THEN ShellBfs(G, cand, rest, visited,
                           Append(chains,
                                  [path |-> path,
                                   chain_length |-> Len(path) - 1,
                                   shell_count |-> Cardinality(interior(path) \cap cand)]))
             ELSE IF Len(path) < max_depth
             THEN LET e == ShellExtend(path, G.succ[Head(queue).current], 1,
                                       [queue |-> rest, visited |-> visited])
                  IN  ShellBfs(G, cand, e.queue, e.visited, chains)
             ELSE ShellBfs(G, cand, rest, visited, chains)

\* one iteration of `for start_node in start_nodes`
shell_from(G, cand, start_node, chains) ==
    IF Len(chains) >= max_chains THEN chains
    ELSE ShellBfs(G, cand, <<[current |-> start_node, path |-> <<start_node>>]>>,
                  {start_node}, chains)

RECURSIVE shell_over(_, _, _, _, _)
shell_over(G, cand, start_nodes, i, chains) ==
    IF i > Len(start_nodes) THEN chains
    ELSE shell_over(G, cand, start_nodes, i + 1, shell_from(G, cand, start_nodes[i], chains))

(***************************************************************************)
(* PatternService.detect_smurfing, check_redistribution_speed              *)
(***************************************************************************)
MinOf(S) == CHOOSE x \in S : \A y \in S : x <= y

MaxOf(S) == CHOOSE x \in S : \A y \in S : x >= y

stamps(df, idx) == {df[i].timestamp : i \in idx}

time_span(df, idx) == MaxOf(stamps(df, idx)) - MinOf(stamps(df, idx))

detect_smurfing_above(df) ==
    [fan_in  |-> {v \in all_accounts(df) :
                     /\ Cardinality(unique_in(df, v)) > FAN_THRESHOLD
                     /\ time_span(df, in_rows(df, v)) <= WINDOW_HOURS},
     fan_out |-> {v \in all_accounts(df) :
                     /\ Cardinality(unique_out(df, v)) > FAN_THRESHOLD
                     /\ time_span(df, out_rows(df, v)) <= WINDOW_HOURS}]

\* results["fan_in"] / results["fan_out"], as the set of their account_id
detect_smurfing(df) ==
    [fan_in  |-> {v \in all_accounts(df) :
                     /\ Cardinality(unique_in(df, v)) >= FAN_THRESHOLD
                     /\ time_span(df, in_rows(df, v)) <= WINDOW_HOURS},
     fan_out |-> {v \in all_accounts(df) :
                     /\ Cardinality(unique_out(df, v)) >= FAN_THRESHOLD
                     /\ time_span(df, out_rows(df, v)) <= WINDOW_HOURS}]

\* the bands taken without their upper ends (< 24 h, < 96 h)
check_redistribution_speed_open(df, account_id) ==
    LET in_tx == in_rows(df, account_id)
        out_tx == out_rows(df, account_id)
    IN  IF in_tx = {} \/ out_tx = {} THEN 10
        ELSE LET time_to_out == MinOf(stamps(df, out_tx)) - MinOf(stamps(df, in_tx))
             IN  IF 0 < time_to_out /\ time_to_out < 24 THEN FAST_PASS_THROUGH
                 ELSE IF 24 <= time_to_out /\ time_to_out < 96 THEN DELAYED_PASS_THROUGH
                 ELSE 10

\* the multiplier in tenths (10 = 1.0)
check_redistribution_speed(df, account_id) ==
    LET in_tx == in_rows(df, account_id)
        out_tx == out_rows(df, account_id)
    IN  IF in_tx = {} \/ out_tx = {} THEN 10
        ELSE LET first_in == MinOf(stamps(df, in_tx))
                 first_out == MinOf(stamps(df, out_tx))
                 time_to_out == first_out - first_in
             IN  IF first_out <= first_in THEN 10
                 ELSE IF 0 < time_to_out /\ time_to_out <= 24 THEN FAST_PASS_THROUGH
                 ELSE IF 24 < time_to_out /\ time_to_out <= 96 THEN DELAYED_PASS_THROUGH
                 ELSE 10

(***************************************************************************)
(* PatternService.get_account_type and its predicates.                     *)
(* A coefficient of variation test  std/avg < c  with avg > 0 is           *)
(* n*Q < (1 + c^2) * S^2  for the n values' sum S and sum of squares Q.    *)
(***************************************************************************)
\* values of field f of the rows idx, sorted by timestamp (stable in row order)
RECURSIVE SortedIdx(_, _)
SortedIdx(df, idx) ==
    IF idx = {} THEN <<>>
    ELSE LET m == CHOOSE i \in idx : \A j \in idx :
                      \/ df[i].timestamp < df[j].timestamp
                      \/ (df[i].timestamp = df[j].timestamp /\ i <= j)
         IN  <<m>> \o SortedIdx(df, idx \ {m})

intervals(df, idx) ==
    LET o == SortedIdx(df, idx)
    IN  [k \in 1..(Len(o) - 1) |-> df[o[k + 1]].timestamp - df[o[k]].timestamp]

SumSq(s) == SumSeq([k \in 1..Len(s) |-> s[k] * s[k]])

\* std/avg < cnum/cden for the values s (avg > 0)
cov_below(s, cnum, cden) ==
    Len(s) * SumSq(s) * cden * cden < (cden * cden + cnum * cnum) * SumSeq(s) * SumSeq(s)

is_merchant_velocity(df, account_id) ==
    LET txs == in_rows(df, account_id)
        iv == intervals(df, txs)
    IN  IF Cardinality(txs) < 5 THEN FALSE
        ELSE IF Len(iv) >= 4 /\ SumSeq(iv) > 0 THEN cov_below(iv, 15, 10)
        ELSE TRUE

is_payroll_pattern(df, account_id) ==
    LET txs == out_rows(df, account_id)
        iv == intervals(df, txs)
        matching(target) == Cardinality({k \in 1..Len(iv) :
                                10 * (IF iv[k] >= target THEN iv[k] - target
                                      ELSE target - iv[k]) < 3 * target})
    IN  IF Cardinality(txs) < 8 THEN FALSE
        ELSE IF Len(iv) >= 3
        THEN \/ \E target \in {24, 48, 72, 168} : 10 * matching(target) >= 6 * Len(iv)
             \/ (SumSeq(iv) > 0 /\ cov_below(iv, 12, 10))
        ELSE FALSE

has_diverse_sources(df, account_id) ==
    LET total_txs == Cardinality(in_rows(df, account_id))
    IN  total_txs > 0 /\ 10 * Cardinality(unique_in(df, account_id)) > 4 * total_txs

has_consistent_amounts(df, account_id) ==
    LET txs == out_rows(df, account_id)
        amounts == LET o == SortedIdx(df, txs) IN [k \in 1..Len(o) |-> df[o[k]].amount]
    IN  IF Cardinality(txs) < 5 THEN FALSE
        ELSE SumSeq(amounts) > 0 /\ cov_below(amounts, 5, 10)

\* the payroll rules tried before the merchant rules
get_account_type_payroll_first(df, account_id) ==
    LET in_count == Cardinality(in_rows(df, account_id))
        out_count == Cardinality(out_rows(df, account_id))
        u_in == Cardinality(unique_in(df, account_id))
        u_out == Cardinality(unique_out(df, account_id))
    IN  IF out_count >= 20 /\ u_out >= 12
           /\ is_payroll_pattern(df, account_id) THEN "payroll"
        ELSE IF out_count >= 15 /\ u_out >= 8
           /\ is_payroll_pattern(df, account_id)
           /\ has_consistent_amounts(df, account_id) THEN "payroll"
        ELSE IF in_count >= 30 /\ u_in >= 15 /\ u_out <= 5
           /\ is_merchant_velocity(df, account_id) THEN "merchant"
        ELSE IF in_count >= 25 /\ u_in >= 12
           /\ has_diverse_sources(df, account_id) THEN "merchant"
        ELSE IF in_count + out_count <= MAX_SHELL_TX THEN "shell"
        ELSE "standard"

get_account_type(df, account_id) ==
    LET in_count == Cardinality(in_rows(df, account_id))
        out_count == Cardinality(out_rows(df, account_id))
        u_in == Cardinality(unique_in(df, account_id))
        u_out == Cardinality(unique_out(df, account_id))
    IN  IF in_count >= 30 /\ u_in >= 15 /\ u_out <= 5
           /\ is_merchant_velocity(df, account_id) THEN "merchant"
        ELSE IF in_count >= 25 /\ u_in >= 12
           /\ has_diverse_sources(df, account_id) THEN "merchant"
        ELSE IF out_count >= 20 /\ u_out >= 12
           /\ is_payroll_pattern(df, account_id) THEN "payroll"
        ELSE IF out_count >= 15 /\ u_out >= 8
           /\ is_payroll_pattern(df, account_id)
           /\ has_consistent_amounts(df, account_id) THEN "payroll"
        ELSE IF in_count + out_count <= MAX_SHELL_TX THEN "shell"
        ELSE "standard"

(***************************************************************************)
(* AnalysisEngine.run_full_analysis: STEP 2, the scoring of one account    *)
(***************************************************************************)
Tag(kind, k) == [kind |-> kind, k |-> k]

first_cycle_with(cs, acc_id) ==
    cs[MinOf({i \in 1..Len(cs) : acc_id \in Range(cs[i])})]

cycle_part_hops(cs, acc_id) ==
    IF \E i \in 1..Len(cs) : acc_id \in Range(cs[i])
    THEN [base_scores |-> <<CYCLE_INVOLVEMENT>>, multipliers |-> <<>>,
          patterns |-> <<Tag("cycle_length", Len(first_cycle_with(cs, acc_id)) - 1)>>]
    ELSE [base_scores |-> <<>>, multipliers |-> <<>>, patterns |-> <<>>]

\* PATTERN A: [base_scores, multipliers, patterns] after the cycle block
cycle_part(cs, acc_id) ==
    IF \E i \in 1..Len(cs) : acc_id \in Range(cs[i])
    THEN [base_scores |-> <<CYCLE_INVOLVEMENT>>, multipliers |-> <<>>,
          patterns |-> <<Tag("cycle_length", Len(first_cycle_with(cs, acc_id)))>>]
    ELSE [base_scores |-> <<>>, multipliers |-> <<>>, patterns |-> <<>>]

\* PATTERN B
smurfing_part(df, sm, acc_id, s) ==
    IF acc_id \in sm.fan_in \/ acc_id \in sm.fan_out
    THEN LET velocity_mult == check_redistribution_speed(df, acc_id)
         IN  IF velocity_mult > 10
             THEN IF velocity_mult >= FAST_PASS_THROUGH
                  THEN [base_scores |-> Append(s.base_scores, SMURFING_FAST_REDI),
                        multipliers |-> Append(s.multipliers, velocity_mult),
                        patterns |-> Append(s.patterns, Tag("fast_redistribution_smurfing", 0))]
                  ELSE [base_scores |-> Append(s.base_scores, SMURFING_DELAYED_REDI),
                        multipliers |-> Append(s.multipliers, velocity_mult),
                        patterns |-> Append(s.patterns, Tag("delayed_redistribution_smurfing", 0))]
             ELSE [base_scores |-> Append(s.base_scores, SMURFING_SLOW_REDI),
                   multipliers |-> s.multipliers,
                   patterns |-> Append(s.patterns, Tag("high_volume_account", 0))]
    ELSE s

\* PATTERN C: for chain in shell_chains
RECURSIVE shell_part(_, _, _, _)
shell_part(chains, i, acc_id, s) ==
    IF i > Len(chains) THEN s
    ELSE LET chain == chains[i]
             s1 == IF acc_id \in Range(chain.path)
                   THEN [s EXCEPT !.patterns =
                            Append(@, Tag("shell_chain_hops", chain.chain_length))]
                   ELSE s
             s2 == IF acc_id \in Range(chain.path) /\ acc_id \in interior(chain.path)
                   THEN [s1 EXCEPT !.base_scores = Append(@, SHELL_ACCOUNT)]
                   ELSE s1
         IN  shell_part(chains, i + 1, acc_id, s2)

\* one iteration of `for acc_id in all_accounts`, up to the filtering
score_account(df, cs, sm, chains, acc_id) ==
    LET account_type == get_account_type(df, acc_id)
        s == shell_part(chains, 1, acc_id,
                        smurfing_part(df, sm, acc_id, cycle_part(cs, acc_id)))
    IN  [account_id |-> acc_id,
         base_scores |-> s.base_scores,
         multipliers |-> s.multipliers,
         score |-> calculate_final_score(s.base_scores, s.multipliers, account_type),
         patterns |-> s.patterns,
         account_type |-> account_type]

REPORT_THRESHOLD == 2000
LEGIT_THRESHOLD == 7500

passes_threshold_unfiltered(e) == e.score > REPORT_THRESHOLD

\* FALSE POSITIVE FILTERING and the > 20 test
passes_threshold(e) ==
    /\ ~(e.account_type \in {"merchant", "payroll"} /\ e.score <= LEGIT_THRESHOLD)
    /\ e.score > REPORT_THRESHOLD

(***************************************************************************)
(* Ring identifiers: f"RING_{str(ring_counter).zfill(3)}"                  *)
(***************************************************************************)
RECURSIVE str(_)
str(n) == IF n < 10 THEN <<n>> ELSE Append(str(n \div 10), n % 10)

zfill_nopad(digits, width) == digits

RECURSIVE zfill(_, _)
zfill(digits, width) ==
    IF Len(digits) >= width THEN digits ELSE zfill(<<0>> \o digits, width)

RING_WIDTH == 3

RingId(n) == [prefix |-> "RING_", digits |-> zfill(str(n), RING_WIDTH)]

NoRing == [prefix |-> "None", digits |-> <<>>]

(***************************************************************************)
(* STEP 3 helpers                                                          *)
(***************************************************************************)
InData(ad, acc) == \E i \in 1..Len(ad) : ad[i].account_id = acc

ScoreOf(ad, acc) == ad[CHOOSE i \in 1..Len(ad) : ad[i].account_id = acc].score

\* [account_data[acc]["score"] for acc in members if acc in account_data]
member_scores(ad, members) ==
    LET kept == SelectSeq(members, LAMBDA acc : InData(ad, acc))
    IN  [i \in 1..Len(kept) |-> ScoreOf(ad, kept[i])]

\* the mean taken over all members, unreported ones counting as 0
ring_risk_score_all_members(ad, members) ==
    LET ms == member_scores(ad, members)
    IN  IF ms = <<>> THEN 0 ELSE Min(10000, RoundDiv(SumSeq(ms), Len(members)))

ring_risk_score(ad, members) ==
    LET ms == member_scores(ad, members)
    IN  IF ms = <<>> THEN 0 ELSE Min(10000, RoundDiv(SumSeq(ms), Len(ms)))

\* an account keeps the first ring it was given
assign_ring_keep_first(ad, members, ring_id) ==
    [i \in 1..Len(ad) |->
        IF ad[i].account_id \in Range(members) /\ ad[i].ring_id = NoRing
        THEN [ad[i] EXCEPT !.ring_id = ring_id]
        ELSE ad[i]]

assign_ring(ad, members, ring_id) ==
    [i \in 1..Len(ad) |->
        IF ad[i].account_id \in Range(members) THEN [ad[i] EXCEPT !.ring_id = ring_id]
        ELSE ad[i]]

map_members(m, members, ring_id) ==
    [a \in DOMAIN m \cup Range(members) |-> IF a \in Range(members) THEN ring_id ELSE m[a]]

(***************************************************************************)
(* STEP 4: list.sort(key=score, reverse=True), a stable sort               *)
(***************************************************************************)
RECURSIVE InsertDesc(_, _)
InsertDesc(sorted, x) ==
    IF sorted = <<>> THEN <<x>>
    ELSE IF Head(sorted).suspicion_score >= x.suspicion_score
         THEN <<Head(sorted)>> \o InsertDesc(Tail(sorted), x)
         ELSE <<x>> \o sorted

RECURSIVE SortDescFrom(_, _, _)
SortDescFrom(s, i, acc) ==
    IF i > Len(s) THEN acc ELSE SortDescFrom(s, i + 1, InsertDesc(acc, s[i]))

unsorted_scores(s) == s

sort_by_score_desc(s) == SortDescFrom(s, 1, <<>>)

SuspiciousAccount(e) ==
    [account_id |-> e.account_id, suspicion_score |-> e.score,
     detected_patterns |-> e.patterns, ring_id |-> e.ring_id]

(***************************************************************************)
(* Inputs                                                                  *)
(***************************************************************************)
\* account ids are strings such as ACC_00123; Acc(n) stands for the n-th of them
Acc(n) == <<"ACC", n>>

A == Acc(1)
B == Acc(2)
C == Acc(3)
D == Acc(4)
E == Acc(5)
X == Acc(6)
Y == Acc(7)
Z == Acc(8)

\* candidate edges of the generated batches, in row order
EdgeUniverse ==
    << <<A, B>>, <<B, C>>, <<C, D>>, <<D, E>>, <<C, A>>,
       <<D, A>>, <<B, D>>, <<B, A>> >>

\* rows for the edges es, one hour apart (parse_csv returns rows sorted by timestamp)
RowsOf(es) == [i \in 1..Len(es) |-> Row(es[i][1], es[i][2], i, 100)]

RECURSIVE SubSeqOf(_, _, _)
SubSeqOf(s, I, i) ==
    IF i > Len(s) THEN <<>>
    ELSE IF i \in I THEN <<s[i]>> \o SubSeqOf(s, I, i + 1) ELSE SubSeqOf(s, I, i + 1)

GeneratedBatches ==
    {RowsOf(SubSeqOf(EdgeUniverse, I, 1)) :
        I \in {J \in SUBSET (1..Len(EdgeUniverse)) : J # {} /\ Cardinality(J) <= MaxTx}}

ShellChainEdges == {<<A, B>>, <<B, C>>, <<C, D>>, <<D, E>>}

ShellChainBatches == {RowsOf(p) : p \in Perms(ShellChainEdges)}

OverlapBatch ==
    RowsOf(<< <<A, B>>, <<B, C>>, <<C, A>>, <<A, X>>, <<X, Y>>, <<Y, Z>>, <<Z, D>> >>)

(***************************************************************************)
(* Scenario batches                                                        *)
(***************************************************************************)
V == Acc(9)
W == Acc(10)

\* the i-th counterparty of a fan
Party(i) == Acc(10 + i)

\* three transactions one hour apart, amount 500
TriangleBatch == <<Row(A, B, 1, 500), Row(B, C, 2, 500), Row(C, A, 3, 500)>>

\* n distinct senders into V; the first at hour 0, the last at hour span
FanIn(n, span) ==
    [i \in 1..n |-> Row(Party(i), V, IF i = n THEN span ELSE i - 1, 100)]

\* V sends to n distinct receivers
FanOut(n, span) ==
    [i \in 1..n |-> Row(V, Party(i), IF i = n THEN span ELSE i - 1, 100)]

FanCounts == {FAN_THRESHOLD - 1, FAN_THRESHOLD, FAN_THRESHOLD + 1}

FanSpans == {WINDOW_HOURS - 1, WINDOW_HOURS, WINDOW_HOURS + 1}

\* a fan-in whose hub pays W on, k hours after its first incoming transaction
FanThrough(k) ==
    FanIn(FAN_THRESHOLD, FAN_THRESHOLD) \o <<Row(V, W, k, 100)>>

FanBatches ==
    {FanIn(n, span) : n \in FanCounts, span \in FanSpans}
        \cup {FanOut(n, span) : n \in FanCounts, span \in FanSpans}

\* 25 payments to V from 12 customers, one an hour: a merchant
MerchantBatch == [i \in 1..25 |-> Row(Party(1 + (i % 12)), V, i, 100)]

\* 40 payments to V from 15 customers, one an hour: a merchant by volume,
\* with too few distinct senders per payment to count as diverse
StrictMerchantBatch == [i \in 1..40 |-> Row(Party(1 + (i % 15)), V, i, 100)]

\* n payments of V to k employees, one a day from hour `from` on
Payouts(n, k, from) == [i \in 1..n |-> Row(V, Party(20 + (i % k)), from + 24 * i, 100)]

PayrollBatch == Payouts(20, 12, 0)

ConsistentPayrollBatch == Payouts(15, 8, 0)

\* the merchant of MerchantBatch also pays 12 employees daily
MerchantPayrollBatch == MerchantBatch \o Payouts(20, 12, 24)

\* 20 payments of V to 12 receivers in three bursts, 100 hours apart
BurstPayoutBatch ==
    [i \in 1..20 |-> Row(V, Party(20 + (i % 12)), 100 * (i \div 10), 100)]

ClassBatches ==
    {MerchantBatch, StrictMerchantBatch, PayrollBatch, ConsistentPayrollBatch,
     MerchantPayrollBatch, BurstPayoutBatch}

\* cycle shapes outside the generated batches
SelfLoopBatch == RowsOf(<< <<A, A>>, <<A, B>>, <<B, C>> >>)

PentagonBatch == RowsOf(<< <<A, B>>, <<B, C>>, <<C, D>>, <<D, E>>, <<E, A>> >>)

HexagonBatch ==
    RowsOf(<< <<A, B>>, <<B, C>>, <<C, D>>, <<D, E>>, <<E, X>>, <<X, A>> >>)

\* the square A->B->C->D->A with the chords A->C and C->A, each chord's row
\* before the square's row of the same sender
ChordedSquareBatch ==
    RowsOf(<< <<A, C>>, <<A, B>>, <<B, C>>, <<C, A>>, <<C, D>>, <<D, A>> >>)

TwoCycleBatch == RowsOf(<< <<A, B>>, <<B, A>> >>)

CycleBatches ==
    {TriangleBatch, TwoCycleBatch, SelfLoopBatch, PentagonBatch, HexagonBatch,
     ChordedSquareBatch}

RedistributionHours == {24, 25, 96, 97}

\* V is both a fan-in and a fan-out hub: ten senders pay V in one hour, V
\* pays ten other receivers in one hour, the first payment out d hours
\* after the first payment in (before it when d < 0)
FanBoth(d) ==
    IF d >= 0
    THEN [i \in 1..FAN_THRESHOLD |-> Row(Party(i), V, 0, 100)]
            \o [i \in 1..FAN_THRESHOLD |-> Row(V, Party(FAN_THRESHOLD + i), d, 100)]
    ELSE [i \in 1..FAN_THRESHOLD |-> Row(V, Party(FAN_THRESHOLD + i), 0, 100)]
            \o [i \in 1..FAN_THRESHOLD |-> Row(Party(i), V, 0 - d, 100)]

RedistributionDelays == {-1, 0, 1} \cup RedistributionHours

ScenarioBatches ==
    {TriangleBatch, MerchantBatch, ChordedSquareBatch}
        \cup FanBatches \cup {FanThrough(k) : k \in RedistributionHours}
        \cup {FanBoth(d) : d \in RedistributionDelays}

\* get_account_type has not been called
NoClass == [account_id |-> <<"", 0>>, account_type |-> ""]

\* the detector loops have not been entered
NoDfs == [starts |-> <<>>, i |-> 0, stack |-> <<>>, visited_global |-> {}]

NoBfs == [starts |-> <<>>, i |-> 0, queue |-> <<>>, visited |-> {}]

\* no file has been uploaded
NoUpload == <<>>

\* latest_result = None
NoResult == [none |-> TRUE]

\* what the pipeline leaves alone
Untouched ==
    /\ class_out = NoClass
    /\ dfs = NoDfs
    /\ bfs = NoBfs
    /\ upload = NoUpload

\* no GET request has been answered
NoResponse == [path |-> "", status_code |-> 0, status |-> "", body |-> NoResult]

NoCall == [base_scores |-> <<>>, multipliers |-> <<>>, account_type |-> "none"]

EmptyEnvelope == [suspicious_accounts |-> <<>>, fraud_rings |-> <<>>]

Fresh(df) ==
    /\ pc = "cycles"
    /\ cycles = <<>>
    /\ smurfing = [fan_in |-> {}, fan_out |-> {}]
    /\ shell_chains = <<>>
    /\ account_data = <<>>
    /\ fraud_rings = <<>>
    /\ ring_members_mapped = <<>>
    /\ ring_counter = 0
    /\ loop_idx = 0
    /\ suspicious_list = <<>>
    /\ batch = df
    /\ elapsed = 0

InitWith(batches) ==
    /\ \E df \in batches : Fresh(df)
    /\ prev_result = EmptyEnvelope
    /\ runs = 0
    /\ score_in = NoCall
    /\ score_out = 0
    /\ http_response = NoResponse
    /\ Untouched
    /\ latest_result = NoResult

\* arguments of a direct call of calculate_final_score (test_scoring_functions)
BaseValues ==
    {CYCLE_INVOLVEMENT, SMURFING_FAST_REDI, SHELL_ACCOUNT, SMURFING_DELAYED_REDI,
     50, SMURFING_SLOW_REDI}

MultiplierValues == {10, DELAYED_PASS_THROUGH, FAST_PASS_THROUGH}

AccountTypes == {"merchant", "payroll", "shell", "standard"}

SeqsUpTo(S, n) == UNION {[1..k -> S] : k \in 0..n}

ScoreInputs ==
    [base_scores : SeqsUpTo(BaseValues, MaxBases),
     multipliers : SeqsUpTo(MultiplierValues, MaxMultipliers),
     account_type : AccountTypes]

InitScoreCall ==
    /\ score_in \in ScoreInputs
    /\ score_out = 0
    /\ pc = "score_call"
    /\ batch = <<>>
    /\ cycles = <<>>
    /\ smurfing = [fan_in |-> {}, fan_out |-> {}]
    /\ shell_chains = <<>>
    /\ account_data = <<>>
    /\ fraud_rings = <<>>
    /\ ring_members_mapped = <<>>
    /\ ring_counter = 0
    /\ loop_idx = 0
    /\ suspicious_list = <<>>
    /\ prev_result = EmptyEnvelope
    /\ runs = 0
    /\ elapsed = 0
    /\ http_response = NoResponse
    /\ Untouched
    /\ latest_result = NoResult

\* the ring loops about to allocate ring number ring_counter + 1: a run makes at
\* most MAX_CYCLES cycle rings followed by at most max_chains chain rings
MaxRings == MAX_CYCLES + max_chains

InitRingId ==
    /\ ring_counter \in 0..(MaxRings - 1)
    /\ pc = "ring_id"
    /\ batch = <<>>
    /\ cycles = <<>>
    /\ smurfing = [fan_in |-> {}, fan_out |-> {}]
    /\ shell_chains = <<>>
    /\ account_data = <<>>
    /\ fraud_rings = <<>>
    /\ ring_members_mapped = <<>>
    /\ loop_idx = 0
    /\ suspicious_list = <<>>
    /\ prev_result = EmptyEnvelope
    /\ runs = 0
    /\ score_in = NoCall
    /\ score_out = 0
    /\ elapsed = 0
    /\ http_response = NoResponse
    /\ Untouched
    /\ latest_result = NoResult

\* an engine run on a batch, a direct call of calculate_final_score, or the
\* allocation of one ring id
Init ==
    \/ InitWith(GeneratedBatches \cup ShellChainBatches \cup ScenarioBatches)
    \/ InitScoreCall
    \/ InitRingId

CalcScore ==
    /\ pc = "score_call"
    /\ score_out' = calculate_final_score(score_in.base_scores, score_in.multipliers,
                                          score_in.account_type)
    /\ pc' = "score_done"
    /\ UNCHANGED <<batch, cycles, smurfing, shell_chains, account_data, fraud_rings,
                   ring_members_mapped, ring_counter, loop_idx, suspicious_list,
                   prev_result, runs, score_in,
                   elapsed, http_response,
                   class_out, dfs, bfs, upload, latest_result>>

(***************************************************************************)
(* run_full_analysis, STEP 1                                               *)
(***************************************************************************)
DetectCycles ==
    /\ pc = "cycles"
    /\ cycles' = detect_cycles(batch)
    /\ pc' = "smurfing"
    /\ UNCHANGED <<batch, smurfing, shell_chains, account_data, fraud_rings,
                   ring_members_mapped, ring_counter, loop_idx, suspicious_list,
                   prev_result, runs, score_in, score_out,
                   elapsed, http_response,
                   class_out, dfs, bfs, upload, latest_result>>

DetectSmurfing ==
    /\ pc = "smurfing"
    /\ smurfing' = detect_smurfing(batch)
    /\ pc' = "shell"
    /\ UNCHANGED <<batch, cycles, shell_chains, account_data, fraud_rings,
                   ring_members_mapped, ring_counter, loop_idx, suspicious_list,
                   prev_result, runs, score_in, score_out,
                   elapsed, http_response,
                   class_out, dfs, bfs, upload, latest_result>>

\* start_nodes = random.sample(list(G.nodes()), min(sample_size, len(G.nodes()))).
\* A start whose search records no chain leaves `chains` as it was, so a sample
\* is determined, as far as the result goes, by the recording starts it holds
\* and their order.  The sample holds sample_size of the N nodes: it may leave
\* out at most N - sample_size nodes.
recording_starts(G, cand) ==
    {n \in Range(G.nodes) : shell_from(G, cand, n, <<>>) # <<>>}

sample_orders(G, cand) ==
    LET N == Len(G.nodes)
        sample_size == Min(N, MAX_STARTS)
        P == recording_starts(G, cand)
    IN  UNION {Perms(S) : S \in {T \in SUBSET P :
                                    /\ Cardinality(T) <= sample_size
                                    /\ Cardinality(P \ T) <= N - sample_size}}

DetectShell ==
    /\ pc = "shell"
    /\ LET G == build_graph(batch)
           cand == shell_candidates(batch)
       IN  \E start_nodes \in sample_orders(G, cand) :
               shell_chains' = shell_over(G, cand, start_nodes, 1, <<>>)
    /\ pc' = "score"
    /\ UNCHANGED <<batch, cycles, smurfing, account_data, fraud_rings,
                   ring_members_mapped, ring_counter, loop_idx, suspicious_list,
                   prev_result, runs, score_in, score_out,
                   elapsed, http_response,
                   class_out, dfs, bfs, upload, latest_result>>

(***************************************************************************)
(* STEP 2: for acc_id in all_accounts.  all_accounts is a set, iterated in *)
(* an order the language does not fix; account_data keeps the reported     *)
(* accounts in that order.                                                 *)
(***************************************************************************)
after_scoring(cs, chains) ==
    IF cs # <<>> THEN "cycle_rings"
    ELSE IF chains # <<>> THEN "chain_rings" ELSE "format"

ScoreAccounts ==
    /\ pc = "score"
    /\ LET entry == [acc \in all_accounts(batch) |->
                        score_account(batch, cycles, smurfing, shell_chains, acc)]
           reported == {acc \in all_accounts(batch) : passes_threshold(entry[acc])}
       IN  \E order \in Perms(reported) :
               account_data' = [i \in 1..Len(order) |->
                                   [account_id |-> order[i],
                                    score |-> entry[order[i]].score,
                                    patterns |-> entry[order[i]].patterns,
                                    ring_id |-> NoRing,
                                    account_type |-> entry[order[i]].account_type]]
    /\ pc' = after_scoring(cycles, shell_chains)
    /\ loop_idx' = 1
    /\ UNCHANGED <<batch, cycles, smurfing, shell_chains, fraud_rings,
                   ring_members_mapped, ring_counter, suspicious_list,
                   prev_result, runs, score_in, score_out,
                   elapsed, http_response,
                   class_out, dfs, bfs, upload, latest_result>>

(***************************************************************************)
(* STEP 3: one iteration of each ring loop per step                        *)
(***************************************************************************)
FraudRing(ring_id, members, pattern_type, risk) ==
    [ring_id |-> ring_id, member_accounts |-> members,
     pattern_type |-> pattern_type, risk_score |-> risk]

\* for cycle in cycles
CycleRing ==
    /\ pc = "cycle_rings"
    /\ loop_idx <= Len(cycles)
    /\ LET cycle == cycles[loop_idx]
           ring_id == RingId(ring_counter + 1)
       IN  /\ ring_counter' = ring_counter + 1
           /\ account_data' = assign_ring(account_data, cycle, ring_id)
           /\ ring_members_mapped' = map_members(ring_members_mapped, cycle, ring_id)
           /\ fraud_rings' = Append(fraud_rings,
                                FraudRing(ring_id, cycle, "circular_fund_routing",
                                          ring_risk_score(account_data, cycle)))
    /\ IF loop_idx < Len(cycles)
       THEN pc' = pc /\ loop_idx' = loop_idx + 1
       ELSE pc' = (IF shell_chains # <<>> THEN "chain_rings" ELSE "format")
            /\ loop_idx' = 1
    /\ UNCHANGED <<batch, cycles, smurfing, shell_chains, suspicious_list,
                   prev_result, runs, score_in, score_out,
                   elapsed, http_response,
                   class_out, dfs, bfs, upload, latest_result>>

chain_is_free_always(m, chain_members) == TRUE

chain_is_free(m, chain_members) == Range(chain_members) \cap DOMAIN m = {}

\* for chain_idx, chain in enumerate(shell_chains)
ChainRing ==
    /\ pc = "chain_rings"
    /\ loop_idx <= Len(shell_chains)
    /\ LET chain_members == shell_chains[loop_idx].path
           ring_id == RingId(ring_counter + 1)
       IN  IF chain_is_free(ring_members_mapped, chain_members)
           THEN /\ ring_counter' = ring_counter + 1
                /\ account_data' = assign_ring(account_data, chain_members, ring_id)
                /\ ring_members_mapped' =
                       map_members(ring_members_mapped, chain_members, ring_id)
                /\ fraud_rings' = Append(fraud_rings,
                                     FraudRing(ring_id, chain_members, "layered_shell_network",
                                               ring_risk_score(account_data, chain_members)))
           ELSE UNCHANGED <<ring_counter, account_data, ring_members_mapped, fraud_rings>>
    /\ IF loop_idx < Len(shell_chains)
       THEN pc' = pc /\ loop_idx' = loop_idx + 1
       ELSE pc' = "format" /\ loop_idx' = 1
    /\ UNCHANGED <<batch, cycles, smurfing, shell_chains, suspicious_list,
                   prev_result, runs, score_in, score_out,
                   elapsed, http_response,
                   class_out, dfs, bfs, upload, latest_result>>

(***************************************************************************)
(* STEP 4                                                                  *)
(***************************************************************************)
\* GraphService.get_graph_json: the nodes and the edges of the DiGraph
get_graph_json(df) ==
    LET G == build_graph(df)
    IN  [nodes |-> G.nodes,
         edges |-> {<<df[i].sender_id, df[i].receiver_id>> : i \in 1..Len(df)}]

AnalysisSummary(df, sl, fr, seconds) ==
    [total_accounts_analyzed |-> Cardinality(all_accounts(df)),
     suspicious_accounts_flagged |-> Len(sl),
     fraud_rings_detected |-> Len(fr),
     processing_time_seconds |-> seconds]

\* analysis_result.model_dump() with graph_data merged in
result_dict(df, sl, fr, seconds) ==
    [suspicious_accounts |-> sl,
     fraud_rings |-> fr,
     summary |-> AnalysisSummary(df, sl, fr, seconds),
     graph_data |-> get_graph_json(df)]

\* STEP 4, and the end of analyze_transactions: latest_result = result_dict
FormatOutput ==
    /\ pc = "format"
    /\ suspicious_list' =
           sort_by_score_desc([i \in 1..Len(account_data) |->
                                  SuspiciousAccount(account_data[i])])
    /\ latest_result' = result_dict(batch, suspicious_list', fraud_rings, elapsed)
    /\ pc' = "done"
    /\ UNCHANGED <<batch, cycles, smurfing, shell_chains, account_data, fraud_rings,
                   ring_members_mapped, ring_counter, loop_idx,
                   prev_result, runs, score_in, score_out,
                   elapsed, http_response,
                   class_out, dfs, bfs, upload>>

\* ring_counter += 1; ring_id = f"RING_{str(ring_counter).zfill(3)}" and the
\* append of that ring, for the ring number alone (members left out)
AllocateRingId ==
    /\ pc = "ring_id"
    /\ ring_counter' = ring_counter + 1
    /\ fraud_rings' = <<FraudRing(RingId(ring_counter + 1), <<>>, "circular_fund_routing", 0)>>
    /\ pc' = "ring_id_done"
    /\ UNCHANGED <<batch, cycles, smurfing, shell_chains, account_data,
                   ring_members_mapped, loop_idx, suspicious_list,
                   prev_result, runs, score_in, score_out,
                   elapsed, http_response,
                   class_out, dfs, bfs, upload, latest_result>>

NextRun ==
    \/ DetectCycles
    \/ DetectSmurfing
    \/ DetectShell
    \/ ScoreAccounts
    \/ CycleRing
    \/ ChainRing
    \/ FormatOutput

Next == NextRun \/ CalcScore \/ AllocateRingId

Spec == Init /\ [][Next]_vars

(***************************************************************************)
(* A second request.  Each /analyze request builds a new AnalysisEngine on *)
(* the rows it was sent; prev_result keeps the envelope of the request     *)
(* before.                                                                 *)
(***************************************************************************)
Envelope == [suspicious_accounts |-> suspicious_list, fraud_rings |-> fraud_rings]

StartRunOn(df) ==
    /\ batch' = df
    /\ pc' = "cycles"
    /\ cycles' = <<>>
    /\ smurfing' = [fan_in |-> {}, fan_out |-> {}]
    /\ shell_chains' = <<>>
    /\ account_data' = <<>>
    /\ fraud_rings' = <<>>
    /\ ring_members_mapped' = <<>>
    /\ ring_counter' = 0
    /\ loop_idx' = 0
    /\ suspicious_list' = <<>>
    /\ elapsed' = 0

\* the same rows are analysed again
Rerun ==
    /\ pc = "done"
    /\ runs < MaxRuns - 1
    /\ prev_result' = Envelope
    /\ runs' = runs + 1
    /\ StartRunOn(batch)
    /\ UNCHANGED <<score_in, score_out, http_response,
                   class_out, dfs, bfs, upload, latest_result>>

SpecRerun == InitWith(GeneratedBatches \cup ShellChainBatches) /\ [][NextRun \/ Rerun]_vars

\* k transactions between 2k accounts that occur nowhere in df, after its rows
FreshAcc(n) == <<"NEW", n>>

FreshRows(df, k) ==
    [i \in 1..k |-> Row(FreshAcc(2 * i - 1), FreshAcc(2 * i), Len(df) + i, 100)]

FreshPairCounts == {1, 2, 48, 299}

FreshBaseBatches ==
    {RowsOf(<< <<A, B>>, <<B, C>>, <<C, A>> >>),
     RowsOf(<< <<A, B>>, <<B, C>>, <<C, D>>, <<D, E>> >>),
     RowsOf(<< <<A, B>>, <<B, C>>, <<C, A>>, <<C, D>>, <<D, E>> >>)}

\* the rows are analysed again with transactions of fresh accounts appended
AppendFresh ==
    /\ pc = "done"
    /\ runs = 0
    /\ prev_result' = Envelope
    /\ runs' = runs + 1
    /\ \E k \in FreshPairCounts : StartRunOn(batch \o FreshRows(batch, k))
    /\ UNCHANGED <<score_in, score_out, http_response,
                   class_out, dfs, bfs, upload, latest_result>>

SpecFresh == InitWith(FreshBaseBatches) /\ [][NextRun \/ AppendFresh]_vars

\* df.sort_values(by='timestamp'): the rows in timestamp order; the default sort
\* is not stable, so rows of equal timestamp may come out in any order
sort_values(df) ==
    {[i \in 1..Len(df) |-> df[q[i]]] :
        q \in {p \in Perms(1..Len(df)) :
                  \A i \in 1..(Len(df) - 1) : df[p[i]].timestamp <= df[p[i + 1]].timestamp}}

(***************************************************************************)
(* CSVProcessor.parse_csv.  An uploaded row is [sender_id, receiver_id,    *)
(* timestamp, amount] as read_csv reads it: an empty cell is NaN, a        *)
(* timestamp cell is text that to_datetime parses (Stamp(h)) or does not.  *)
(***************************************************************************)
NaN == <<"NaN", 0>>

\* str(float("nan"))
NanText == <<"nan", 0>>

Stamp(h) == <<"ok", h>>

Unparseable == <<"bad", 0>>

NaT == <<"NaT", 0>>

\* Series.astype(str).  pandas before 3.0 formats every element, NaN becoming
\* the text "nan"; pandas 3 keeps a missing value missing.  keeps_missing
\* says which pandas the build runs on.
astype_str(cell, keeps_missing) ==
    IF cell = NaN /\ ~keeps_missing THEN NanText ELSE cell

\* pd.to_datetime(errors='coerce')
to_datetime(cell) == IF cell = NaN \/ cell = Unparseable THEN NaT ELSE cell

\* lines 37-42 on one row
convert_row(r, keeps_missing) ==
    [sender_id |-> astype_str(r.sender_id, keeps_missing),
     receiver_id |-> astype_str(r.receiver_id, keeps_missing),
     timestamp |-> to_datetime(r.timestamp),
     amount |-> r.amount]

\* df.dropna(subset=['sender_id', 'receiver_id', 'timestamp'])
dropna(df) ==
    SelectSeq(df, LAMBDA r : r.sender_id # NaN /\ r.receiver_id # NaN /\ r.timestamp # NaT)

\* the set of tables parse_csv can return for the uploaded rows
parse_csv(rows, keeps_missing) ==
    LET converted == [i \in 1..Len(rows) |-> convert_row(rows[i], keeps_missing)]
        kept == dropna(converted)
    IN  sort_values([i \in 1..Len(kept) |->
                        Row(kept[i].sender_id, kept[i].receiver_id,
                            kept[i].timestamp[2], kept[i].amount)])

MaxUploadRows == 2

UploadRows ==
    [sender_id : {A, B, NaN}, receiver_id : {B, C, NaN},
     timestamp : {Stamp(1), Stamp(2), Unparseable}, amount : {100}]

Uploads == UNION {[1..k -> UploadRows] : k \in 1..MaxUploadRows}

InitUpload ==
    /\ upload \in Uploads
    /\ pc = "parse"
    /\ batch = <<>>
    /\ cycles = <<>>
    /\ smurfing = [fan_in |-> {}, fan_out |-> {}]
    /\ shell_chains = <<>>
    /\ account_data = <<>>
    /\ fraud_rings = <<>>
    /\ ring_members_mapped = <<>>
    /\ ring_counter = 0
    /\ loop_idx = 0
    /\ suspicious_list = <<>>
    /\ prev_result = EmptyEnvelope
    /\ runs = 0
    /\ score_in = NoCall
    /\ score_out = 0
    /\ elapsed = 0
    /\ http_response = NoResponse
    /\ class_out = NoClass
    /\ dfs = NoDfs
    /\ bfs = NoBfs
    /\ latest_result = NoResult

\* df = CSVProcessor.parse_csv(content)
ParseCsv ==
    /\ pc = "parse"
    /\ \E keeps_missing \in BOOLEAN : batch' \in parse_csv(upload, keeps_missing)
    /\ pc' = "parsed"
    /\ UNCHANGED <<cycles, smurfing, shell_chains, account_data, fraud_rings,
                   ring_members_mapped, ring_counter, loop_idx, suspicious_list,
                   prev_result, runs, score_in, score_out, elapsed, http_response,
                   class_out, dfs, bfs, upload, latest_result>>

SpecIngest == InitUpload /\ [][ParseCsv]_vars

(***************************************************************************)
(* A direct call ps.get_account_type(acc) on a PatternService built from   *)
(* the batch (test_pattern_detection)                                      *)
(***************************************************************************)
GetAccountType ==
    /\ pc = "cycles"
    /\ class_out = NoClass
    /\ \E acc \in all_accounts(batch) :
          class_out' = [account_id |-> acc, account_type |-> get_account_type(batch, acc)]
    /\ UNCHANGED <<batch, pc, cycles, smurfing, shell_chains, account_data, fraud_rings,
                   ring_members_mapped, ring_counter, loop_idx, suspicious_list,
                   prev_result, runs, score_in, score_out, elapsed, http_response,
                   dfs, bfs, upload, latest_result>>

SpecClassify == InitWith(GeneratedBatches \cup ClassBatches) /\ [][GetAccountType]_vars

(***************************************************************************)
(* detect_cycles and detect_shell_networks, one loop iteration per step.   *)
(* pc is "dfs_for" / "bfs_for" at the head of the for loop over the start  *)
(* nodes and "dfs_while" / "bfs_while" at the head of the while loop.      *)
(***************************************************************************)
\* every ordered pair of n accounts
CompleteBatch(n) ==
    [k \in 1..(n * (n - 1)) |->
        LET i == (k - 1) \div (n - 1) + 1
            jj == ((k - 1) % (n - 1)) + 1
        IN  Row(Acc(i), Acc(IF jj >= i THEN jj + 1 ELSE jj), k, 100)]

\* A->B->C->D->E with B->C sent three times: neither B nor C is a shell
\* candidate, D is
DeepChainEdges == << <<A, B>>, <<B, C>>, <<B, C>>, <<B, C>>, <<C, D>>, <<D, E>> >>

DeepChainBatch == RowsOf(DeepChainEdges)

\* the accounts of the fan-out forest below
Payer(i) == Acc(100 + i)

Mule(i, j) == Acc(200 + 5 * i + j)

Relay(j, k) == Acc(300 + 2 * j + k)

Sink(j, k, m) == Acc(400 + 8 * j + 4 * k + m)

\* DeepChainEdges, then 13 payers with 5 mules each (3 transactions per mule),
\* every j-th mule paying the same 2 relays, every relay paying its own 4
\* sinks: 40 chains of 4 accounts from each payer
ShellCapEdges ==
    DeepChainEdges
      \o [n \in 1..65 |-> <<Payer((n - 1) \div 5 + 1),
                             Mule((n - 1) \div 5 + 1, ((n - 1) % 5) + 1)>>]
      \o [n \in 1..130 |-> <<Mule((n - 1) \div 10 + 1, ((n - 1) % 10) \div 2 + 1),
                              Relay(((n - 1) % 10) \div 2 + 1, ((n - 1) % 2) + 1)>>]
      \o [n \in 1..40 |-> <<Relay((n - 1) \div 8 + 1, ((n - 1) % 8) \div 4 + 1),
                             Sink((n - 1) \div 8 + 1, ((n - 1) % 8) \div 4 + 1,
                                  ((n - 1) % 4) + 1)>>]

ShellCapBatch == RowsOf(ShellCapEdges)

LoopBatches ==
    GeneratedBatches \cup CycleBatches
        \cup {DeepChainBatch, CompleteBatch(4), CompleteBatch(12), ShellCapBatch}

reverse(s) == [i \in 1..Len(s) |-> s[Len(s) + 1 - i]]

MaxPermuted == 3

\* random.sample(list(G.nodes()), min(sample_size, len(G.nodes()))): the first
\* sample_size nodes in node order and in reverse order, and every order of
\* the nodes of a graph of at most MaxPermuted nodes
sample_choices(G) ==
    LET first == SubSeq(G.nodes, 1, Min(Len(G.nodes), MAX_STARTS))
    IN  {first, reverse(first)}
            \cup (IF Len(G.nodes) <= MaxPermuted THEN Perms(Range(G.nodes)) ELSE {})

InitLoops ==
    /\ batch \in LoopBatches
    /\ pc = "dfs_for"
    /\ dfs = [starts |-> high_degree_nodes(batch, build_graph(batch)), i |-> 1,
              stack |-> <<>>, visited_global |-> {}]
    /\ bfs \in {[starts |-> o, i |-> 1, queue |-> <<>>, visited |-> {}] :
                    o \in sample_choices(build_graph(batch))}
    /\ cycles = <<>>
    /\ smurfing = [fan_in |-> {}, fan_out |-> {}]
    /\ shell_chains = <<>>
    /\ account_data = <<>>
    /\ fraud_rings = <<>>
    /\ ring_members_mapped = <<>>
    /\ ring_counter = 0
    /\ loop_idx = 0
    /\ suspicious_list = <<>>
    /\ prev_result = EmptyEnvelope
    /\ runs = 0
    /\ score_in = NoCall
    /\ score_out = 0
    /\ elapsed = 0
    /\ http_response = NoResponse
    /\ class_out = NoClass
    /\ upload = NoUpload
    /\ latest_result = NoResult

\* for start_node in high_degree_nodes: break, or stack = [(start_node, ...)]
CycleFor ==
    /\ pc = "dfs_for"
    /\ IF dfs.i > Len(dfs.starts) \/ Len(cycles) >= MAX_CYCLES
       THEN pc' = "bfs_for" /\ dfs' = dfs
       ELSE /\ pc' = "dfs_while"
            /\ dfs' = [dfs EXCEPT !.stack = <<[current |-> dfs.starts[dfs.i],
                                               path |-> <<dfs.starts[dfs.i]>>,
                                               visited |-> {dfs.starts[dfs.i]}]>>]
    /\ UNCHANGED <<batch, cycles, smurfing, shell_chains, account_data, fraud_rings,
                   ring_members_mapped, ring_counter, loop_idx, suspicious_list,
                   prev_result, runs, score_in, score_out, elapsed, http_response,
                   class_out, bfs, upload, latest_result>>

\* while stack and len(cycles) < MAX_CYCLES: one pop and its for loop
CycleWhile ==
    /\ pc = "dfs_while"
    /\ IF dfs.stack = <<>> \/ Len(cycles) >= MAX_CYCLES
       THEN /\ pc' = "dfs_for"
            /\ dfs' = [dfs EXCEPT !.i = @ + 1, !.stack = <<>>]
            /\ cycles' = cycles
       ELSE LET top == dfs.stack[Len(dfs.stack)]
                rest == SubSeq(dfs.stack, 1, Len(dfs.stack) - 1)
                r == CycleNeighbors(dfs.starts[dfs.i], top.path,
                                    successors(batch, top.current), 1,
                                    [stack |-> rest, visited |-> top.visited,
                                     cycles |-> cycles,
                                     visited_global |-> dfs.visited_global])
            IN  /\ pc' = pc
                /\ IF Len(top.path) > max_len
                   THEN dfs' = [dfs EXCEPT !.stack = rest] /\ cycles' = cycles
                   ELSE /\ dfs' = [dfs EXCEPT !.stack = r.stack,
                                              !.visited_global = r.visited_global]
                        /\ cycles' = r.cycles
    /\ UNCHANGED <<batch, smurfing, shell_chains, account_data, fraud_rings,
                   ring_members_mapped, ring_counter, loop_idx, suspicious_list,
                   prev_result, runs, score_in, score_out, elapsed, http_response,
                   class_out, bfs, upload, latest_result>>

\* for start_node in start_nodes: break, or queue = [(start_node, [start_node])]
ShellFor ==
    /\ pc = "bfs_for"
    /\ IF bfs.i > Len(bfs.starts) \/ Len(shell_chains) >= max_chains
       THEN pc' = "searched" /\ bfs' = bfs
       ELSE /\ pc' = "bfs_while"
            /\ bfs' = [bfs EXCEPT !.queue = <<[current |-> bfs.starts[bfs.i],
                                               path |-> <<bfs.starts[bfs.i]>>]>>,
                                  !.visited = {bfs.starts[bfs.i]}]
    /\ UNCHANGED <<batch, cycles, smurfing, shell_chains, account_data, fraud_rings,
                   ring_members_mapped, ring_counter, loop_idx, suspicious_list,
                   prev_result, runs, score_in, score_out, elapsed, http_response,
                   class_out, dfs, upload, latest_result>>

\* the popped entry is put back at the end of the queue
pop_front_requeue(queue) == Tail(queue) \o <<Head(queue)>>

\* the queue after queue.pop(0)
pop_front(queue) == Tail(queue)

\* while queue and len(chains) < max_chains: one pop
ShellWhile ==
    /\ pc = "bfs_while"
    /\ IF bfs.queue = <<>> \/ Len(shell_chains) >= max_chains
       THEN /\ pc' = "bfs_for"
            /\ bfs' = [bfs EXCEPT !.i = @ + 1, !.queue = <<>>]
            /\ shell_chains' = shell_chains
       ELSE LET current == Head(bfs.queue).current
                path == Head(bfs.queue).path
                rest == pop_front(bfs.queue)
                e == ShellExtend(path, successors(batch, current), 1,
                                 [queue |-> rest, visited |-> bfs.visited])
            IN  /\ pc' = pc
                /\ IF Len(path) >= 4 /\ interior(path) \cap shell_candidates(batch) # {}
                   THEN /\ shell_chains' =
                              Append(shell_chains,
                                     [path |-> path,
                                      chain_length |-> Len(path) - 1,
                                      shell_count |->
                                          Cardinality(interior(path)
                                                        \cap shell_candidates(batch))])
                        /\ bfs' = [bfs EXCEPT !.queue = rest]
                   ELSE IF Len(path) < max_depth
                   THEN /\ bfs' = [bfs EXCEPT !.queue = e.queue, !.visited = e.visited]
                        /\ shell_chains' = shell_chains
                   ELSE /\ bfs' = [bfs EXCEPT !.queue = rest]
                        /\ shell_chains' = shell_chains
    /\ UNCHANGED <<batch, cycles, smurfing, account_data, fraud_rings,
                   ring_members_mapped, ring_counter, loop_idx, suspicious_list,
                   prev_result, runs, score_in, score_out, elapsed, http_response,
                   class_out, dfs, upload, latest_result>>

NextLoops == CycleFor \/ CycleWhile \/ ShellFor \/ ShellWhile

SpecLoops == InitLoops /\ [][NextLoops]_vars

\* the transactions of TriangleBatch and of the chain A->B->C->D->E, all of
\* them at the same hour
TiedTriangleBatch == [i \in 1..Len(TriangleBatch) |-> [TriangleBatch[i] EXCEPT !.timestamp = 1]]

TiedChainBatch ==
    [i \in 1..4 |-> Row(Acc(i), Acc(i + 1), 1, 100)]

PermuteBatches ==
    {TriangleBatch, TiedTriangleBatch, TiedChainBatch,
     RowsOf(<< <<A, B>>, <<B, C>>, <<C, D>>, <<D, E>> >>)}

\* the same transactions are uploaded with their rows in another order and
\* parse_csv sorts them by timestamp
Permute ==
    /\ pc = "done"
    /\ runs = 0
    /\ prev_result' = Envelope
    /\ runs' = runs + 1
    /\ \E p \in Perms(1..Len(batch)) :
          \E df \in sort_values([i \in 1..Len(batch) |-> batch[p[i]]]) : StartRunOn(df)
    /\ UNCHANGED <<score_in, score_out, http_response,
                   class_out, dfs, bfs, upload, latest_result>>

SpecPermute == InitWith(PermuteBatches) /\ [][NextRun \/ Permute]_vars

(***************************************************************************)
(* Time.  AnalysisEngine.__init__ takes start_time = time.time() and the    *)
(* run reads the clock once more for processing_time_seconds; seconds go   *)
(* by between the steps of a run.  Settings.PROCESSING_TIMEOUT_SECONDS is  *)
(* the configured maximum; run_full_analysis takes no deadline argument    *)
(* and no step reads the setting.                                          *)
(***************************************************************************)
PROCESSING_TIMEOUT_SECONDS == 60

RunningPcs == {"cycles", "smurfing", "shell", "score", "cycle_rings", "chain_rings", "format"}

\* the clock advances while a run is under way
ClockTick ==
    /\ pc \in RunningPcs
    /\ elapsed <= PROCESSING_TIMEOUT_SECONDS
    /\ elapsed' = elapsed + PROCESSING_TIMEOUT_SECONDS \div 2 + 1
    /\ UNCHANGED <<batch, pc, cycles, smurfing, shell_chains, account_data, fraud_rings,
                   ring_members_mapped, ring_counter, loop_idx, suspicious_list,
                   prev_result, runs, score_in, score_out, http_response,
                   class_out, dfs, bfs, upload, latest_result>>

SpecDeadline == InitWith(FreshBaseBatches) /\ [][NextRun \/ ClockTick]_vars

(***************************************************************************)
(* The HTTP application (main.py): GET routes "/" and "/export/json", POST *)
(* routes "/analyze" and "/analyze/graph-data".  A GET request is served   *)
(* before the analysis request starts or after it has returned.            *)
(***************************************************************************)
GetPaths == {"/", "/health", "/export/json", "/analyze"}

\* latest_result is None until an /analyze request has returned
latest_result_is_none == latest_result = NoResult

\* export_json answering with every key of latest_result, graph_data included
export_data_all(latest) == latest

\* export_data of export_json
export_data(latest) ==
    [suspicious_accounts |-> latest.suspicious_accounts,
     fraud_rings |-> latest.fraud_rings,
     summary |-> latest.summary]

Response(path, status_code, status, body) ==
    [path |-> path, status_code |-> status_code, status |-> status, body |-> body]

handle_get(path) ==
    IF path = "/" THEN Response(path, 200, "online", NoResult)
    ELSE IF path = "/export/json"
    THEN IF latest_result_is_none
         THEN Response(path, 400, "", NoResult)
         ELSE Response(path, 200, "", export_data(latest_result))
    ELSE IF path \in {"/analyze", "/analyze/graph-data"}
    THEN Response(path, 405, "", NoResult)
    ELSE Response(path, 404, "", NoResult)

\* no request is being served: before the first /analyze, after one has
\* returned, after one has failed
IdlePcs == {"cycles", "done", "failed"}

HttpGet ==
    /\ pc \in IdlePcs
    /\ \E path \in GetPaths : http_response' = handle_get(path)
    /\ UNCHANGED <<batch, pc, cycles, smurfing, shell_chains, account_data, fraud_rings,
                   ring_members_mapped, ring_counter, loop_idx, suspicious_list,
                   prev_result, runs, score_in, score_out, elapsed,
                   class_out, dfs, bfs, upload, latest_result>>

SpecHttp == InitWith(FreshBaseBatches) /\ [][NextRun \/ HttpGet]_vars

(***************************************************************************)
(* POST /analyze and POST /analyze/graph-data around the engine run        *)
(***************************************************************************)
\* the HTTPException(400) exits of analyze_transactions
RejectReasons == {"not_csv", "missing_columns", "empty_batch"}

\* a failing request that clears the stored result
latest_after_failure_reset(latest) == NoResult

\* every raise in analyze_transactions precedes `latest_result = result_dict`
latest_after_failure(latest) == latest

\* the file name does not end in .csv, parse_csv raises, or df.empty
AnalyzeRejected ==
    /\ pc \in IdlePcs
    /\ \E reason \in RejectReasons :
          http_response' = Response("/analyze", 400, reason, NoResult)
    /\ latest_result' = latest_after_failure(latest_result)
    /\ UNCHANGED <<batch, pc, cycles, smurfing, shell_chains, account_data, fraud_rings,
                   ring_members_mapped, ring_counter, loop_idx, suspicious_list,
                   prev_result, runs, score_in, score_out, elapsed,
                   class_out, dfs, bfs, upload>>

\* an exception inside the engine run: except Exception -> 500
AnalyzeAborts ==
    /\ pc \in RunningPcs
    /\ pc' = "failed"
    /\ http_response' = Response("/analyze", 500, "internal", NoResult)
    /\ latest_result' = latest_after_failure(latest_result)
    /\ UNCHANGED <<batch, cycles, smurfing, shell_chains, account_data, fraud_rings,
                   ring_members_mapped, ring_counter, loop_idx, suspicious_list,
                   prev_result, runs, score_in, score_out, elapsed,
                   class_out, dfs, bfs, upload>>

\* POST /analyze/graph-data: parse, GraphService(df).get_graph_json()
GraphData ==
    /\ pc \in IdlePcs
    /\ \E df \in FreshBaseBatches \cup {<<>>} :
          http_response' = Response("/analyze/graph-data", 200, "", get_graph_json(df))
    /\ UNCHANGED <<batch, pc, cycles, smurfing, shell_chains, account_data, fraud_rings,
                   ring_members_mapped, ring_counter, loop_idx, suspicious_list,
                   prev_result, runs, score_in, score_out, elapsed,
                   class_out, dfs, bfs, upload, latest_result>>

\* the next /analyze request, on any batch
Reanalyze ==
    /\ pc \in {"done", "failed"}
    /\ runs < MaxRuns - 1
    /\ prev_result' = IF pc = "done" THEN Envelope ELSE prev_result
    /\ runs' = runs + 1
    /\ \E df \in FreshBaseBatches : StartRunOn(df)
    /\ UNCHANGED <<score_in, score_out, http_response,
                   class_out, dfs, bfs, upload, latest_result>>

SpecCache ==
    InitWith(FreshBaseBatches)
        /\ [][NextRun \/ HttpGet \/ AnalyzeRejected \/ AnalyzeAborts \/ GraphData
                \/ Reanalyze]_vars

\* the detectors on their own
\* the chorded square among 600 accounts: the hub threshold is 3
LargeCycleBatch == ChordedSquareBatch \o FreshRows(ChordedSquareBatch, 298)

SpecCycles ==
    InitWith(GeneratedBatches \cup CycleBatches \cup {LargeCycleBatch})
        /\ [][DetectCycles]_vars

SpecSmurfing ==
    InitWith(GeneratedBatches \cup FanBatches) /\ [][DetectCycles \/ DetectSmurfing]_vars

\* the overlap scenario on its own
InitOverlap == InitWith({OverlapBatch})

SpecOverlap == InitOverlap /\ [][NextRun]_vars

(***************************************************************************)
(* C1: every score the engine reports, and every value                     *)
(* calculate_final_score returns, lies in [0, 100].                        *)
(***************************************************************************)
ScoreInRange(x) == 0 <= x /\ x <= 10000

C1_ScoreBounds ==
    /\ pc = "score_done" => ScoreInRange(score_out)
    /\ \A i \in 1..Len(account_data) : ScoreInRange(account_data[i].score)
    /\ \A i \in 1..Len(suspicious_list) : ScoreInRange(suspicious_list[i].suspicion_score)

\* a reported account whose fused score (85 + 0.2 * 120 = 109) was clamped
C1_Witness ==
    /\ pc = "done"
    /\ \E i \in 1..Len(suspicious_list) :
          /\ suspicious_list[i].suspicion_score = 10000
          /\ LET e == score_account(batch, cycles, smurfing, shell_chains,
                                    suspicious_list[i].account_id)
             IN  SumSeq(e.base_scores) >= CYCLE_INVOLVEMENT + 2 * SHELL_ACCOUNT

(***************************************************************************)
(* C2: calculate_final_score returns at most 35 for a merchant and at most *)
(* 30 for a payroll account, so no account of these classes carries more.  *)
(***************************************************************************)
C2_ClassCaps ==
    /\ (pc = "score_done" /\ score_in.account_type = "merchant")
          => score_out <= MERCHANT_MAX_SCORE
    /\ (pc = "score_done" /\ score_in.account_type = "payroll")
          => score_out <= PAYROLL_MAX_SCORE
    /\ \A i \in 1..Len(account_data) :
          /\ account_data[i].account_type = "merchant"
                => account_data[i].score <= MERCHANT_MAX_SCORE
          /\ account_data[i].account_type = "payroll"
                => account_data[i].score <= PAYROLL_MAX_SCORE

\* the call of test_scoring_functions: [50, 60] with 1.0 as a merchant gives the cap
C2_Witness ==
    /\ pc = "score_done"
    /\ score_in = [base_scores |-> <<50, 60>>, multipliers |-> <<10>>,
                   account_type |-> "merchant"]
    /\ score_out = MERCHANT_MAX_SCORE


(***************************************************************************)
(* C3 (as stated): no account occurs in the member_accounts of two         *)
(* different rings, so the cycle pass never overwrites a ring assignment.  *)
(***************************************************************************)
Members(r) == Range(r.member_accounts)

C3_OneRingPerAccount ==
    \A i \in 1..Len(fraud_rings) : \A j \in 1..Len(fraud_rings) :
        i # j => Members(fraud_rings[i]) \cap Members(fraud_rings[j]) = {}

(***************************************************************************)
(* C4 (as stated): at the end of a run every ring member that passed the   *)
(* reporting threshold is in suspicious_accounts with that ring's id, and  *)
(* every member that did not pass is absent from suspicious_accounts.      *)
(***************************************************************************)
Passed(acc) ==
    passes_threshold(score_account(batch, cycles, smurfing, shell_chains, acc))

Listed(acc) == \E k \in 1..Len(suspicious_list) : suspicious_list[k].account_id = acc

ListedWith(acc, ring_id) ==
    \E k \in 1..Len(suspicious_list) :
        suspicious_list[k].account_id = acc /\ suspicious_list[k].ring_id = ring_id

C4_MembersCarryRingId ==
    pc = "done" =>
        \A i \in 1..Len(fraud_rings) : \A m \in Members(fraud_rings[i]) :
            IF Passed(m) THEN ListedWith(m, fraud_rings[i].ring_id) ELSE ~Listed(m)

(***************************************************************************)
(* C6: suspicious_accounts is sorted non-increasing by suspicion_score.    *)
(***************************************************************************)
C6_SortedDescending ==
    \A i \in 1..(Len(suspicious_list) - 1) :
        suspicious_list[i].suspicion_score >= suspicious_list[i + 1].suspicion_score

\* a finished run whose account_data was not in score order before the sort
C6_Witness ==
    /\ pc = "done"
    /\ Len(suspicious_list) >= 3
    /\ \E i \in 1..(Len(account_data) - 1) :
          account_data[i].score < account_data[i + 1].score


(***************************************************************************)
(* Shell-chain scenario (batch A->B->C->D->E)                              *)
(***************************************************************************)
EntryOf(acc) ==
    suspicious_list[CHOOSE k \in 1..Len(suspicious_list) : suspicious_list[k].account_id = acc]

HasTag(acc, tag) == Listed(acc) /\ tag \in Range(EntryOf(acc).detected_patterns)

BasesOf(acc) == score_account(batch, cycles, smurfing, shell_chains, acc).base_scores

LayeredRings == {i \in 1..Len(fraud_rings) : fraud_rings[i].pattern_type = "layered_shell_network"}

ChainPaths == {shell_chains[i].path : i \in 1..Len(shell_chains)}

HasShellTag(acc) ==
    Listed(acc) /\ \E t \in Range(EntryOf(acc).detected_patterns) : t.kind = "shell_chain_hops"

\* C8 (as stated): the triangle forms the primary ring, no layered_shell_network
\* ring is created, and X, Y, Z are reported with a shell tag and the shell
\* score contribution but with ring_id null.
C8_Original ==
    (pc = "done" /\ batch = OverlapBatch) =>
        /\ Len(fraud_rings) >= 1
        /\ fraud_rings[1].pattern_type = "circular_fund_routing"
        /\ Members(fraud_rings[1]) = {A, B, C}
        /\ LayeredRings = {}
        /\ \A m \in {X, Y, Z} :
              /\ HasShellTag(m)
              /\ SHELL_ACCOUNT \in Range(BasesOf(m))
              /\ EntryOf(m).ring_id = NoRing

\* C8 (amended): the triangle forms the primary ring RING_001; every recorded
\* chain that contains A, B or C is skipped; the recorded chain [X,Y,Z,D] has no
\* member in a ring and forms the one layered_shell_network ring, RING_002; X, Y
\* and Z are reported with a shell tag and the shell score contribution and
\* with ring_id RING_002.
C8_Amended ==
    (pc = "done" /\ batch = OverlapBatch) =>
        /\ Len(fraud_rings) = 2
        /\ fraud_rings[1].pattern_type = "circular_fund_routing"
        /\ fraud_rings[1].ring_id = RingId(1)
        /\ Members(fraud_rings[1]) = {A, B, C}
        /\ LayeredRings = {2}
        /\ fraud_rings[2].ring_id = RingId(2)
        /\ fraud_rings[2].member_accounts = <<X, Y, Z, D>>
        /\ \E i \in 1..Len(shell_chains) : A \in Range(shell_chains[i].path)
        /\ \A m \in {X, Y, Z} :
              /\ HasShellTag(m)
              /\ SHELL_ACCOUNT \in Range(BasesOf(m))
              /\ EntryOf(m).ring_id = RingId(2)

\* a finished run of the scenario whose first recorded chain, [B,C,A,X], was skipped
C8_Witness ==
    /\ pc = "done"
    /\ batch = OverlapBatch
    /\ shell_chains[1].path = <<B, C, A, X>>
    /\ Len(fraud_rings) = 2
    /\ Listed(X)


(***************************************************************************)
(* Ring identifiers                                                        *)
(***************************************************************************)
RECURSIVE DigitsValue(_)
DigitsValue(ds) ==
    IF ds = <<>> THEN 0 ELSE 10 * DigitsValue(SubSeq(ds, 1, Len(ds) - 1)) + ds[Len(ds)]

\* the number of the i-th ring of fraud_rings, counting the rings of the run
RingNumber(i) == ring_counter - Len(fraud_rings) + i

IsDecimal(ds) == \A k \in 1..Len(ds) : ds[k] \in 0..9

\* C10 (as stated): the i-th ring appended has ring_id 'RING_' followed by i
\* zero-padded to exactly three decimal digits, for every number of rings a
\* run can produce.
C10_Original ==
    \A i \in 1..Len(fraud_rings) :
        LET id == fraud_rings[i].ring_id
        IN  /\ id.prefix = "RING_"
            /\ IsDecimal(id.digits)
            /\ Len(id.digits) = 3
            /\ DigitsValue(id.digits) = RingNumber(i)

\* C10 (amended): the i-th ring appended has ring_id 'RING_' followed by i in
\* decimal, zero-padded to at least three digits: exactly three digits up to
\* ring 999 and the unpadded number from ring 1000 on; ids are unique and dense.
C10_Amended ==
    \A i \in 1..Len(fraud_rings) :
        LET id == fraud_rings[i].ring_id
        IN  /\ id.prefix = "RING_"
            /\ IsDecimal(id.digits)
            /\ DigitsValue(id.digits) = RingNumber(i)
            /\ Len(id.digits) >= 3
            /\ RingNumber(i) <= 999 => Len(id.digits) = 3
            /\ Len(id.digits) > 3 => id.digits[1] # 0

\* the thousandth ring of a run, RING_1000
C10_Witness ==
    /\ pc = "ring_id_done"
    /\ ring_counter = MAX_CYCLES
    /\ fraud_rings[1].ring_id = [prefix |-> "RING_", digits |-> <<1, 0, 0, 0>>]


(***************************************************************************)
(* C5 (as stated): two runs of the full analysis on the same batch produce *)
(* identical suspicious_accounts and identical fraud_rings.                *)
(***************************************************************************)
C5_Deterministic ==
    (pc = "done" /\ runs >= 1) => Envelope = prev_result

(***************************************************************************)
(* Fresh-account monotonicity                                              *)
(***************************************************************************)
PrevReported == Range(prev_result.suspicious_accounts)

RING_001 == [prefix |-> "RING_", digits |-> <<0, 0, 1>>]

C14_PureTriangle ==
    (pc = "done" /\ batch = TriangleBatch) =>
        /\ Len(fraud_rings) = 1
        /\ fraud_rings[1].ring_id = RING_001
        /\ fraud_rings[1].pattern_type = "circular_fund_routing"
        /\ Members(fraud_rings[1]) = {A, B, C}
        /\ \A acc \in {A, B, C} :
              /\ HasTag(acc, Tag("cycle_length", 3))
              /\ EntryOf(acc).suspicion_score >= 8500
              /\ EntryOf(acc).ring_id = RING_001

\* the run on the triangle has finished and reported three accounts
C14_Witness ==
    /\ pc = "done"
    /\ batch = TriangleBatch
    /\ Len(suspicious_list) = 3
    /\ Len(fraud_rings) = 1

(***************************************************************************)
(* C12: an account is in suspicious_accounts if and only if its final      *)
(* score is > 20 and, when its class is merchant or payroll, also > 75; no *)
(* other account appears.                                                  *)
(***************************************************************************)
FinalOf(acc) == score_account(batch, cycles, smurfing, shell_chains, acc)

C12_ReportingRule ==
    pc = "done" =>
        /\ \A acc \in all_accounts(batch) :
              Listed(acc) <=>
                  /\ FinalOf(acc).score > 2000
                  /\ FinalOf(acc).account_type \in {"merchant", "payroll"}
                        => FinalOf(acc).score > 7500
        /\ \A k \in 1..Len(suspicious_list) :
              /\ suspicious_list[k].account_id \in all_accounts(batch)
              /\ \A j \in 1..Len(suspicious_list) :
                    suspicious_list[j].account_id = suspicious_list[k].account_id => j = k

\* the merchant V of MerchantBatch ends at its cap of 35: above 20, not above
\* 75, and is not reported
C12_Witness ==
    /\ pc = "done"
    /\ batch = MerchantBatch
    /\ FinalOf(V).account_type = "merchant"
    /\ FinalOf(V).score = MERCHANT_MAX_SCORE
    /\ ~Listed(V)

(***************************************************************************)
(* C13 (as stated): for every reported account, detected_patterns holds no *)
(* tag twice; shell_chain_H_hops appears once per distinct H.              *)
(***************************************************************************)
C13_TagsDeduplicated ==
    \A k \in 1..Len(suspicious_list) :
        LET tags == suspicious_list[k].detected_patterns
        IN  \A i \in 1..Len(tags) : \A j \in 1..Len(tags) : tags[i] = tags[j] => i = j

(***************************************************************************)
(* C20 (as stated): an account that is interior to one or more recorded    *)
(* shell chains gets the base 60 exactly once, so an account whose only    *)
(* hits are shell-chain hits has final score 60.                           *)
(***************************************************************************)
ShellBases(acc) ==
    {i \in 1..Len(FinalOf(acc).base_scores) : FinalOf(acc).base_scores[i] = SHELL_ACCOUNT}

OnlyShellHits(acc) ==
    /\ \A t \in Range(FinalOf(acc).patterns) : t.kind = "shell_chain_hops"
    /\ \E i \in 1..Len(shell_chains) : acc \in interior(shell_chains[i].path)

C20_SingleShellBase ==
    pc = "done" =>
        \A acc \in all_accounts(batch) :
            /\ (\E i \in 1..Len(shell_chains) : acc \in interior(shell_chains[i].path))
                  => Cardinality(ShellBases(acc)) = 1
            /\ OnlyShellHits(acc) => (Listed(acc) /\ EntryOf(acc).suspicion_score = 6000)

(***************************************************************************)
(* C15: detect_smurfing lists v under fan_in iff v has at least 10         *)
(* distinct senders and its incoming timestamps span at most 72 hours, and *)
(* under fan_out symmetrically; 10 senders within 72 h is a hit, 9 senders *)
(* is not, 10 senders spanning 73 h is not.                                *)
(***************************************************************************)
SendersInto(v) == {r.sender_id : r \in {q \in Range(batch) : q.receiver_id = v}}

ReceiversFrom(v) == {r.receiver_id : r \in {q \in Range(batch) : q.sender_id = v}}

HoursInto(v) == {r.timestamp : r \in {q \in Range(batch) : q.receiver_id = v}}

HoursFrom(v) == {r.timestamp : r \in {q \in Range(batch) : q.sender_id = v}}

SpanAtMost(T, h) == \A t1 \in T : \A t2 \in T : t1 - t2 <= h

SmurfingDone == pc \notin {"cycles", "smurfing", "score_call", "score_done", "ring_id", "ring_id_done"}

C15_FanDetection ==
    SmurfingDone =>
        /\ \A v \in all_accounts(batch) :
              /\ v \in smurfing.fan_in <=>
                    (Cardinality(SendersInto(v)) >= 10 /\ SpanAtMost(HoursInto(v), 72))
              /\ v \in smurfing.fan_out <=>
                    (Cardinality(ReceiversFrom(v)) >= 10 /\ SpanAtMost(HoursFrom(v), 72))
        /\ batch = FanIn(10, 72) => V \in smurfing.fan_in
        /\ batch = FanIn(9, 72) => V \notin smurfing.fan_in
        /\ batch = FanIn(10, 73) => V \notin smurfing.fan_in
        /\ batch = FanOut(10, 72) => V \in smurfing.fan_out
        /\ batch = FanOut(9, 72) => V \notin smurfing.fan_out
        /\ batch = FanOut(10, 73) => V \notin smurfing.fan_out

\* exactly 10 senders into V, the last 72 hours after the first: a fan-in hit
C15_Witness ==
    /\ pc = "shell"
    /\ batch = FanIn(10, 72)
    /\ smurfing.fan_in = {V}

(***************************************************************************)
(* C16: every sequence detect_cycles returns has 3 to 5 pairwise distinct  *)
(* accounts, begins with a hub vertex and follows graph edges, the last    *)
(* element leading back to the first; a 2-cycle, a self-loop and a         *)
(* chordless 6-cycle produce no output.                                    *)
(***************************************************************************)
HasEdge(u, v) == \E r \in Range(batch) : r.sender_id = u /\ r.receiver_id = v

\* in-degree plus out-degree of v in the directed graph of the batch
Degree(v) ==
    Cardinality({r.sender_id : r \in {q \in Range(batch) : q.receiver_id = v}})
        + Cardinality({r.receiver_id : r \in {q \in Range(batch) : q.sender_id = v}})

IsHub(v) ==
    /\ Degree(v) >= 2
    /\ Degree(v) >= Cardinality(all_accounts(batch)) \div 200

IsSimpleCycle(c) ==
    /\ \A i \in 1..Len(c) : \A j \in 1..Len(c) : c[i] = c[j] => i = j
    /\ \A i \in 1..(Len(c) - 1) : HasEdge(c[i], c[i + 1])
    /\ HasEdge(c[Len(c)], c[1])

C16_CycleSoundness ==
    /\ \A i \in 1..Len(cycles) :
          /\ Len(cycles[i]) \in 3..5
          /\ IsSimpleCycle(cycles[i])
          /\ IsHub(cycles[i][1])
    /\ batch \in {TwoCycleBatch, SelfLoopBatch, HexagonBatch} => cycles = <<>>

\* the 5-cycle is returned, from its first vertex
C16_Witness ==
    /\ pc = "smurfing"
    /\ batch = PentagonBatch
    /\ cycles = << <<A, B, C, D, E>> >>

(***************************************************************************)
(* C19 (as stated): whenever fewer than 1000 cycles are emitted, the       *)
(* vertex sets of the emitted cycles are those of the simple directed      *)
(* cycles of length 3 to 5 through a hub, as an exhaustive depth-limited   *)
(* search that tracks only the current path's vertices finds them.         *)
(***************************************************************************)
Hubs == {v \in all_accounts(batch) : IsHub(v)}

\* the simple paths that extend a path of P by one edge
ExtendAll(P) ==
    UNION {{Append(p, r.receiver_id) :
                r \in {q \in Range(batch) :
                          q.sender_id = p[Len(p)] /\ q.receiver_id \notin Range(p)}} :
           p \in P}

RECURSIVE PathsOfLen(_)
PathsOfLen(n) == IF n = 1 THEN {<<v>> : v \in Hubs} ELSE ExtendAll(PathsOfLen(n - 1))

ExhaustiveCycleSets ==
    {Range(p) : p \in {q \in UNION {PathsOfLen(n) : n \in 3..5} : HasEdge(q[Len(q)], q[1])}}

CyclesDone == SmurfingDone \/ pc = "smurfing"

C19_CycleCompleteness ==
    (CyclesDone /\ Len(cycles) < 1000) =>
        {Range(cycles[i]) : i \in 1..Len(cycles)} = ExhaustiveCycleSets

(***************************************************************************)
(* C11 (as stated): reordering the rows of a batch, timestamps unchanged,  *)
(* yields the same suspicious_accounts and the same fraud_rings, including *)
(* which cycle or chain gets which ring id and the vertex order of each    *)
(* member list.                                                            *)
(***************************************************************************)
C11_PermutationInvariant ==
    (pc = "done" /\ runs >= 1) =>
        /\ suspicious_list = prev_result.suspicious_accounts
        /\ fraud_rings = prev_result.fraud_rings

(***************************************************************************)
(* C17 (as stated): when the deadline expires during a run, the run ends   *)
(* with a timeout failure and returns no suspicious accounts and no rings. *)
(***************************************************************************)
C17_Deadline ==
    (pc = "done" /\ elapsed > PROCESSING_TIMEOUT_SECONDS) =>
        (suspicious_list = <<>> /\ fraud_rings = <<>>)

(***************************************************************************)
(* C18 (as stated): a GET request to /health is answered with status 200   *)
(* and a body whose 'status' field is 'healthy'.                           *)
(***************************************************************************)
C18_Health ==
    http_response.path = "/health" =>
        (http_response.status_code = 200 /\ http_response.status = "healthy")

(***************************************************************************)
(* C22: fusion.  With B a highest base score, S the sum of the other base  *)
(* scores and M the product of the multipliers, the score before the class *)
(* cap and the clamp is (B + 0.2 * S) * M, so the multiplier scales the    *)
(* primary base too; an empty base list gives 0.  The raw value shows in   *)
(* the returned score whenever no class cap applies and it is at most 100: *)
(* the score is then the hundredth nearest to it.                          *)
(***************************************************************************)
Abs(n) == IF n < 0 THEN 0 - n ELSE n

PrimaryBase(b) == CHOOSE x \in Range(b) : \A y \in Range(b) : y <= x

\* (B + S/5) * M as numerator over FusionDen(m), in points
FusionNum(b, m) ==
    (5 * PrimaryBase(b) + (SumSeq(b) - PrimaryBase(b))) * ProdSeq(m)

FusionDen(m) == 5 * Pow10(Len(m))

CountIn(s, S) == Cardinality({i \in 1..Len(s) : s[i] \in S})

RedistributionBand(v) ==
    IF HoursInto(v) = {} \/ HoursFrom(v) = {} THEN "slow"
    ELSE LET delay == MinOf(HoursFrom(v)) - MinOf(HoursInto(v))
         IN  IF 0 < delay /\ delay <= 24 THEN "fast"
             ELSE IF 24 < delay /\ delay <= 96 THEN "delayed"
             ELSE "slow"

SmurfingContribution(e, base, tag, mults) ==
    /\ CountIn(e.base_scores, {75, 55, 40}) = 1
    /\ base \in Range(e.base_scores)
    /\ e.multipliers = mults
    /\ CountIn(e.patterns, {Tag("fast_redistribution_smurfing", 0),
                            Tag("delayed_redistribution_smurfing", 0),
                            Tag("high_volume_account", 0)}) = 1
    /\ Tag(tag, 0) \in Range(e.patterns)
    /\ Listed(e.account_id) =>
          Tag(tag, 0) \in Range(EntryOf(e.account_id).detected_patterns)

CyclesOn(acc) == {i \in 1..Len(cycles) : acc \in Range(cycles[i])}

CycleTags == {Tag("cycle_length", k) : k \in 0..MaxTx + 1}

C30_MultiCycleAccounts ==
    pc = "done" =>
        \A k \in 1..Len(suspicious_list) :
            LET e == suspicious_list[k]
                acc == e.account_id
            IN  /\ CyclesOn(acc) # {} =>
                      /\ CountIn(BasesOf(acc), {85}) = 1
                      /\ CountIn(e.detected_patterns, CycleTags) = 1
                      /\ Tag("cycle_length", Len(cycles[MinOf(CyclesOn(acc))]))
                            \in Range(e.detected_patterns)
                      /\ e.ring_id = fraud_rings[MaxOf(CyclesOn(acc))].ring_id
                /\ e.ring_id # NoRing =>
                      \E r \in 1..Len(fraud_rings) :
                          /\ fraud_rings[r].ring_id = e.ring_id
                          /\ acc \in Members(fraud_rings[r])

\* a reported account on two emitted cycles of different lengths
C30_Witness ==
    /\ pc = "done"
    /\ \E k \in 1..Len(suspicious_list) :
          LET on == CyclesOn(suspicious_list[k].account_id)
          IN  /\ Cardinality(on) >= 2
              /\ Len(cycles[MinOf(on)]) # Len(cycles[MaxOf(on)])
              /\ suspicious_list[k].ring_id = fraud_rings[MaxOf(on)].ring_id
              /\ suspicious_list[k].ring_id # fraud_rings[MinOf(on)].ring_id

(***************************************************************************)
(* C26: a ring's risk_score is the mean of the scores of those of its      *)
(* members that appear in suspicious_accounts (unreported members are left *)
(* out of the sum and of the count), to the nearest hundredth; it is 0     *)
(* when no member is reported, and it is always within [0, 100].           *)
(***************************************************************************)
ReportedScores(r) ==
    LET kept == SelectSeq(r.member_accounts, LAMBDA acc : Listed(acc))
    IN  [i \in 1..Len(kept) |-> EntryOf(kept[i]).suspicion_score]

C26_RingRiskScore ==
    pc = "done" =>
        \A i \in 1..Len(fraud_rings) :
            LET r == fraud_rings[i]
                ms == ReportedScores(r)
            IN  /\ 0 <= r.risk_score /\ r.risk_score <= 10000
                /\ ms = <<>> => r.risk_score = 0
                /\ ms # <<>> =>
                      2 * Abs(r.risk_score * Len(ms) - SumSeq(ms)) <= Len(ms)

\* a ring with a reported and an unreported member
C26_Witness ==
    /\ pc = "done"
    /\ \E i \in 1..Len(fraud_rings) :
          /\ \E m \in Members(fraud_rings[i]) : ~Listed(m)
          /\ \E m \in Members(fraud_rings[i]) : Listed(m)
          /\ fraud_rings[i].risk_score = 6400

(***************************************************************************)
(* C21 (as stated): on a graph within the caps (at most 100 vertices,      *)
(* every out-degree at most 5, fewer than 500 recorded chains) every       *)
(* account that is an interior vertex of some directed simple path of 4 or *)
(* 5 vertices with a shell-candidate interior vertex is interior to at     *)
(* least one recorded chain, and so receives the shell base score 60.      *)
(***************************************************************************)
RECURSIVE SimplePaths(_)
SimplePaths(n) ==
    IF n = 1 THEN {<<v>> : v \in all_accounts(batch)} ELSE ExtendAll(SimplePaths(n - 1))

\* accounts with 2 or 3 transactions (rows sent plus rows received)
LowActivity ==
    {v \in all_accounts(batch) :
        LET n == Cardinality({i \in 1..Len(batch) : batch[i].sender_id = v})
                    + Cardinality({i \in 1..Len(batch) : batch[i].receiver_id = v})
        IN  n = 2 \/ n = 3}

Inner(p) == {p[i] : i \in 2..(Len(p) - 1)}

QualifyingPaths == {p \in SimplePaths(4) \cup SimplePaths(5) : Inner(p) \cap LowActivity # {}}

WithinShellCaps ==
    /\ Cardinality(all_accounts(batch)) <= 100
    /\ \A v \in all_accounts(batch) : Cardinality(ReceiversFrom(v)) <= 5
    /\ Len(shell_chains) < 500

C21_ShellCapsPreserveScoring ==
    (pc = "score" /\ WithinShellCaps) =>
        \A p \in QualifyingPaths : \A acc \in Inner(p) :
            /\ \E i \in 1..Len(shell_chains) : acc \in Inner(shell_chains[i].path)
            /\ 60 \in Range(BasesOf(acc))

(***************************************************************************)
(* C28: latest_result changes only at the end of a successful /analyze,    *)
(* and then to that analysis's result; a failing /analyze (non-CSV name,   *)
(* missing columns, empty batch, internal exception) and every             *)
(* /analyze/graph-data leave it unchanged.  /export/json answers 400 while *)
(* no analysis has succeeded, and otherwise returns exactly the            *)
(* suspicious_accounts, fraud_rings and summary of the most recent         *)
(* successful analysis: never a mixture of two analyses, never graph_data. *)
(***************************************************************************)
\* no /analyze request has returned a result
NoneSucceeded == runs = 0 /\ pc # "done"

CacheStep ==
    /\ latest_result' # latest_result =>
          /\ pc = "format" /\ pc' = "done"
          /\ latest_result' = result_dict(batch', suspicious_list', fraud_rings', elapsed')
    /\ (http_response' # http_response /\ http_response'.path = "/export/json") =>
          IF latest_result = NoResult
          THEN http_response'.status_code = 400
          ELSE /\ http_response'.status_code = 200
               /\ http_response'.body =
                      [suspicious_accounts |-> latest_result.suspicious_accounts,
                       fraud_rings |-> latest_result.fraud_rings,
                       summary |-> latest_result.summary]

CompleteRow(r) == r.sender_id # NaN /\ r.receiver_id # NaN /\ r.timestamp # Unparseable

NamedAccounts ==
    ({upload[i].sender_id : i \in 1..Len(upload)}
        \cup {upload[i].receiver_id : i \in 1..Len(upload)}) \ {NaN}

C27_IngestionDropRule ==
    pc = "parsed" =>
        /\ Len(batch) = Cardinality({i \in 1..Len(upload) : CompleteRow(upload[i])})
        /\ all_accounts(batch) \subseteq NamedAccounts

(***************************************************************************)
(* C24: the class of an account is that of the first rule that holds, in   *)
(* the order merchant (strict), merchant (diverse), payroll (strict),      *)
(* payroll (consistent), shell (in + out <= 3), standard; so an account    *)
(* that meets both merchant (diverse) and payroll (strict) is a merchant.  *)
(***************************************************************************)
InCount(v) == Cardinality({i \in 1..Len(batch) : batch[i].receiver_id = v})

OutCount(v) == Cardinality({i \in 1..Len(batch) : batch[i].sender_id = v})

RuleHolds(v) ==
    << /\ InCount(v) >= 30 /\ Cardinality(SendersInto(v)) >= 15
       /\ Cardinality(ReceiversFrom(v)) <= 5 /\ is_merchant_velocity(batch, v),
       /\ InCount(v) >= 25 /\ Cardinality(SendersInto(v)) >= 12
       /\ has_diverse_sources(batch, v),
       /\ OutCount(v) >= 20 /\ Cardinality(ReceiversFrom(v)) >= 12
       /\ is_payroll_pattern(batch, v),
       /\ OutCount(v) >= 15 /\ Cardinality(ReceiversFrom(v)) >= 8
       /\ is_payroll_pattern(batch, v) /\ has_consistent_amounts(batch, v),
       InCount(v) + OutCount(v) <= 3,
       TRUE >>

RuleClass == <<"merchant", "merchant", "payroll", "payroll", "shell", "standard">>

ShellActivity(v) == InCount(v) + OutCount(v) \in {2, 3}

\* positions of the interior vertices of p that have shell activity
ShellPositions(p) == {k \in 2..(Len(p) - 1) : ShellActivity(p[k])}

ProperPrefix(p, q) == Len(p) < Len(q) /\ SubSeq(q, 1, Len(p)) = p

\* C25: every chain returned by detect_shell_networks is a directed path of 4
\* or 5 pairwise-distinct accounts with at least one interior vertex of total
\* activity 2 or 3, chain_length is the number of vertices minus one,
\* shell_count is the number of such interior vertices, no returned chain is a
\* proper prefix of another returned chain, and at most 500 chains are returned
C25_ShellChainSoundness ==
    pc = "searched" =>
        /\ Len(shell_chains) <= 500
        /\ \A i \in 1..Len(shell_chains) :
              LET c == shell_chains[i]
                  p == c.path
              IN  /\ Len(p) \in {4, 5}
                  /\ \A k \in 1..(Len(p) - 1) : HasEdge(p[k], p[k + 1])
                  /\ \A k, m \in 1..Len(p) : k # m => p[k] # p[m]
                  /\ ShellPositions(p) # {}
                  /\ c.chain_length = Len(p) - 1
                  /\ c.shell_count = Cardinality(ShellPositions(p))
        /\ \A i, j \in 1..Len(shell_chains) :
              ~ProperPrefix(shell_chains[i].path, shell_chains[j].path)

\* the search returned 500 chains, among them one of 4 accounts and one
\* of 5 accounts with one shell interior
C25_Witness ==
    /\ pc = "searched"
    /\ Len(shell_chains) = 500
    /\ \E i, j \in 1..Len(shell_chains) :
          /\ Len(shell_chains[i].path) = 4
          /\ Len(shell_chains[j].path) = 5
          /\ shell_chains[j].shell_count = 1

\* ---------------------------------------------------------------------------
\* C29
\* ---------------------------------------------------------------------------

\* a < b in the lexicographic order of two sequences of the same length
RECURSIVE LexLess(_, _)
LexLess(a, b) ==
    /\ a # <<>>
    /\ \/ Head(a) < Head(b)
       \/ Head(a) = Head(b) /\ LexLess(Tail(a), Tail(b))

LoopPcs == <<"searched", "bfs_while", "bfs_for", "dfs_while", "dfs_for">>

\* the loops still to be passed, 4 at the first for loop and 0 on return
PcRank == CHOOSE k \in 0..4 : LoopPcs[k + 1] = pc

\* number of stack entries whose path has n vertices (n = max_len + 1 counts
\* every longer path)
StackCount(n) ==
    Cardinality({k \in 1..Len(dfs.stack) :
                    Min(Len(dfs.stack[k].path), max_len + 1) = n})

\* what is left to do, most significant first: start nodes of the cycle
\* search, start nodes of the chain search, loops to pass, stack entries by
\* path length from the shortest, accounts the chain search has not visited
\* from this start, queue entries
Remaining ==
    <<Len(dfs.starts) + 1 - dfs.i, Len(bfs.starts) + 1 - bfs.i, PcRank>>
        \o [n \in 1..(max_len + 1) |-> StackCount(n)]
        \o <<Cardinality(all_accounts(batch) \ bfs.visited), Len(bfs.queue)>>

\* C29: on every transaction graph the stack loop of detect_cycles and the
\* queue loop of detect_shell_networks run out and both functions return,
\* whether or not the caps of 1000 cycles and 500 chains are reached: every
\* step of the loops makes Remaining, a tuple of natural numbers, smaller in
\* the lexicographic order, so no run takes infinitely many steps, and the
\* only position without a next step is the return
C29_Termination ==
    /\ [][LexLess(Remaining', Remaining)]_vars
    /\ [](\A k \in 1..Len(Remaining) : Remaining[k] >= 0)
    /\ [](pc \in Range(LoopPcs))
    /\ [](pc = "searched" => dfs.stack = <<>> /\ bfs.queue = <<>>)

\* both loops returned on the complete graph of 12 accounts with the cycle cap
\* reached
C29_Witness ==
    /\ pc = "searched"
    /\ batch = CompleteBatch(12)
    /\ Len(cycles) = MAX_CYCLES
    /\ dfs.stack = <<>> /\ bfs.queue = <<>>

====
